---------------------------- MODULE Spec2Model ----------------------------
(***************************************************************************)
(* A model of the static-analysis layer of smolagents-mcp-demo:            *)
(*   src/server/code_metrics_server/code_metrics_server.py                 *)
(*   src/server/code_security_server/code_security_server.py               *)
(* Every analyzer is a function from one argument (the value handed over   *)
(* by the tool interface) to a JSON record; the model keeps the argument,  *)
(* the analyzer that was called and what the call produced: a returned     *)
(* record, or an exception that left the function.                          *)
(*                                                                         *)
(* Python strings are TLA+ strings.  The library functions the analyzers    *)
(* call (str.strip, str.split, re.search, re.finditer, re.sub, ast.parse,   *)
(* ast.walk, json.dumps) are modelled by what they compute, next to the     *)
(* call that uses them.                                                     *)
(***************************************************************************)
EXTENDS Integers, Sequences, FiniteSets, TLC

(***************************************************************************)
(* Characters and the str methods the analyzers use                         *)
(***************************************************************************)

\* The character at 1-based position i of s, "" outside the string.
Ch(s, i) ==
    IF i >= 1 /\ i <= Len(s) THEN SubSeq(s, i, i) ELSE ""

LowerLetters == "abcdefghijklmnopqrstuvwxyz"
UpperLetters == "ABCDEFGHIJKLMNOPQRSTUVWXYZ"
Digits == "0123456789"

\* The characters of a string, as a set.
CharsOf(s) ==
    { Ch(s, i) : i \in 1..Len(s) }

\* str.lower() of one character (the folding re.IGNORECASE applies).
LowerMap ==
    [ c \in CharsOf(UpperLetters) |->
        Ch(LowerLetters, CHOOSE i \in 1..26 : Ch(UpperLetters, i) = c) ]

Fold(c) ==
    IF c \in DOMAIN LowerMap THEN LowerMap[c] ELSE c

\* The characters str.strip() removes and \s matches.
Whitespace == {" ", "\t", "\n", "\r", "\f"}

\* chr(0).  A TLA+ string cannot hold it, so the model writes it as a
\* character that occurs nowhere else in the inputs.
NUL == "?"

\* The least and the greatest member of a non-empty set of integers.
SetMin(S) == CHOOSE x \in S : \A y \in S : x <= y
SetMax(S) == CHOOSE x \in S : \A y \in S : x >= y

\* The positions of s that hold no whitespace.
Inked(s) ==
    {i \in 1..Len(s) : Ch(s, i) \notin Whitespace}

\* str.lstrip()
LStrip(s) ==
    IF Inked(s) = {} THEN "" ELSE SubSeq(s, SetMin(Inked(s)), Len(s))

\* str.rstrip()
RStrip(s) ==
    IF Inked(s) = {} THEN "" ELSE SubSeq(s, 1, SetMax(Inked(s)))

\* str.strip()
Strip(s) ==
    LStrip(RStrip(s))

\* s.startswith(p)
StartsWith(s, p) ==
    Len(s) >= Len(p) /\ SubSeq(s, 1, Len(p)) = p

\* p in s (substring test)
Contains(s, p) ==
    \E i \in 0..(Len(s) - Len(p)) : SubSeq(s, i + 1, i + Len(p)) = p

\* s.count(c) for a one-character c
CountChar(s, c) ==
    Cardinality({i \in 1..Len(s) : Ch(s, i) = c})

\* s.split("\n"): the lines of s; always at least one line.
\* The members of a set of integers in increasing order.
Sorted(S) ==
    [k \in 1..Cardinality(S) |->
        CHOOSE x \in S : Cardinality({y \in S : y < x}) = k - 1]

SplitLines(s) ==
    LET breaks == Sorted({i \in 1..Len(s) : Ch(s, i) = "\n"})
        from(k) == IF k = 1 THEN 1 ELSE breaks[k - 1] + 1
        upto(k) == IF k > Len(breaks) THEN Len(s) ELSE breaks[k] - 1
    IN  [k \in 1..(Len(breaks) + 1) |-> SubSeq(s, from(k), upto(k))]

(***************************************************************************)
(* The re module: patterns are compiled from their source text             *)
(***************************************************************************)

DigitChars == CharsOf(Digits)
WordChars == CharsOf(Digits) \cup CharsOf(UpperLetters) \cup CharsOf(LowerLetters) \cup {"_"}

\* The characters of a class range such as a-z, A-Z or 0-9.
RangeOrder == Digits \o UpperLetters \o LowerLetters

RangeIndex(c) ==
    CHOOSE k \in 1..Len(RangeOrder) : Ch(RangeOrder, k) = c

RangeChars(a, b) ==
    { Ch(RangeOrder, k) : k \in RangeIndex(a)..RangeIndex(b) }

FoldSet(S) ==
    { Fold(x) : x \in S }

\* A node matching one character: a member of set (neg: a non-member).
ChrNode(S, negated) ==
    [k |-> "chr", set |-> S, fset |-> FoldSet(S), neg |-> negated]

\* A repetition {lo,hi} of a node, greedy; hi = -1 is "no upper limit".
RepNode(sub, lo, hi) ==
    [k |-> "rep", sub |-> sub, min |-> lo, max |-> hi]

\* The meaning of backslash + c: a class shorthand or the literal character.
EscapeSet(c) ==
    CASE c = "s" -> Whitespace
      [] c = "d" -> DigitChars
      [] c = "w" -> WordChars
      [] OTHER -> {c}

DigitVal(c) ==
    (CHOOSE k \in 1..10 : Ch(Digits, k) = c) - 1

RECURSIVE ReadNumber(_, _, _)
ReadNumber(p, i, acc) ==
    IF Ch(p, i) \in DigitChars
    THEN ReadNumber(p, i + 1, acc * 10 + DigitVal(Ch(p, i)))
    ELSE [v |-> acc, i |-> i]

\* The items of a character class, from position i up to the closing "]".
RECURSIVE ParseClassItems(_, _, _)
ParseClassItems(p, i, acc) ==
    IF i > Len(p) \/ Ch(p, i) = "]" THEN [set |-> acc, i |-> i + 1]
    ELSE IF Ch(p, i) = "\\"
         THEN ParseClassItems(p, i + 2, acc \cup EscapeSet(Ch(p, i + 1)))
         ELSE IF Ch(p, i + 1) = "-" /\ Ch(p, i + 2) \notin {"]", ""}
              THEN ParseClassItems(p, i + 3,
                                   acc \cup RangeChars(Ch(p, i), Ch(p, i + 2)))
              ELSE ParseClassItems(p, i + 1, acc \cup {Ch(p, i)})

\* A character class [...] or [^...] starting at position i.
ParseClass(p, i) ==
    LET negated == Ch(p, i + 1) = "^"
        class(items) == [n |-> ChrNode(items.set, negated), i |-> items.i]
    IN  class(ParseClassItems(p, IF negated THEN i + 2 ELSE i + 1, {}))

\* The quantifier at position i, if any: *, +, ?, {m}, {m,} or {m,n}.
\* A "{" that opens no such repetition is an ordinary character.
ParseQuantifier(p, i) ==
    LET c == Ch(p, i)
        none == [ok |-> FALSE, min |-> 1, max |-> 1, i |-> i]
        range(n1, n2) ==
            IF Ch(p, n1.i) = "," /\ Ch(p, n2.i) = "}"
            THEN [ok |-> TRUE, min |-> n1.v,
                  max |-> IF n2.i = n1.i + 1 THEN -1 ELSE n2.v,
                  i |-> n2.i + 1]
            ELSE none
        counted(n1) ==
            IF n1.i = i + 1 THEN none
            ELSE IF Ch(p, n1.i) = "}"
                 THEN [ok |-> TRUE, min |-> n1.v, max |-> n1.v, i |-> n1.i + 1]
                 ELSE range(n1, ReadNumber(p, n1.i + 1, 0))
    IN  CASE c = "*" -> [ok |-> TRUE, min |-> 0, max |-> -1, i |-> i + 1]
          [] c = "+" -> [ok |-> TRUE, min |-> 1, max |-> -1, i |-> i + 1]
          [] c = "?" -> [ok |-> TRUE, min |-> 0, max |-> 1, i |-> i + 1]
          [] c = "{" -> counted(ReadNumber(p, i + 1, 0))
          [] OTHER -> none

\* Whether the character at position i of p follows an escaping backslash.
RECURSIVE Escaped(_, _)
Escaped(p, i) ==
    i > 1 /\ Ch(p, i - 1) = "\\" /\ ~Escaped(p, i - 1)

\* Whether position i of p lies inside a character class: after a "[" that
\* no "]" has closed yet (the closing "]" included).
InClass(p, i) ==
    LET opens == {j \in 1..(i - 1) : Ch(p, j) = "[" /\ ~Escaped(p, j)}
        closes == {j \in 1..(i - 1) : Ch(p, j) = "]" /\ ~Escaped(p, j)}
    IN  opens # {} /\ (closes = {} \/ SetMax(closes) < SetMax(opens))

\* Whether position i of p lies inside a repetition {m}, {m,} or {m,n},
\* after its opening brace.
InRepeat(p, i) ==
    LET braces == {j \in 1..(i - 1) : Ch(p, j) = "{"}
        brace == SetMax(braces)
        covers(q) == q.ok /\ i < q.i
    IN  /\ braces # {}
        /\ ~Escaped(p, brace)
        /\ ~InClass(p, brace)
        /\ covers(ParseQuantifier(p, brace))

\* Whether position i of p belongs to the "?:" of a group opened by "(?:".
InGroupOpener(p, i) ==
    \/ /\ Ch(p, i) = "?"
       /\ Ch(p, i + 1) = ":"
       /\ i > 1 /\ Ch(p, i - 1) = "(" /\ ~Escaped(p, i - 1)
    \/ /\ Ch(p, i) = ":"
       /\ i > 2 /\ Ch(p, i - 1) = "?"
       /\ Ch(p, i - 2) = "(" /\ ~Escaped(p, i - 2)

\* What each position of the pattern starts: a group ("open", "close"), an
\* alternative ("bar"), a quantifier ("quant"), an atom ("class", "esc",
\* "chr"), or nothing of its own ("skip").
Tokens(p) ==
    << >> \o
    [i \in 1..Len(p) |->
        LET c == Ch(p, i)
        IN  CASE Escaped(p, i) \/ InClass(p, i) -> "skip"
              [] InRepeat(p, i) \/ InGroupOpener(p, i) -> "skip"
              [] c \in {"*", "+", "?"} -> "quant"
              [] c = "{" /\ ParseQuantifier(p, i).ok -> "quant"
              [] c = "(" -> "open"
              [] c = ")" -> "close"
              [] c = "|" -> "bar"
              [] c = "[" -> "class"
              [] c = "\\" -> "esc"
              [] OTHER -> "chr"]

\* The number of groups open at each position of the pattern.
Depths(tok) ==
    << >> \o
    [i \in 1..Len(tok) |->
        Cardinality({j \in 1..(i - 1) : tok[j] = "open"})
            - Cardinality({j \in 1..(i - 1) : tok[j] = "close"})]

AtomTokens == {"open", "class", "esc", "chr"}

RECURSIVE ParseAlt(_, _, _)
RECURSIVE ParseCat(_, _, _)
RECURSIVE ParseAtom(_, _)

\* One atom: a group, a class, an escape, ".", "^", "$" or a literal.
\* t holds the pattern p, its tokens and their depths.
ParseAtom(t, i) ==
    LET p == t.p
        c == Ch(p, i)
    IN  CASE c = "(" ->
               LET close == SetMin({j \in (i + 1)..Len(p) :
                                       /\ t.tok[j] = "close"
                                       /\ t.depth[j] = t.depth[i] + 1})
                   from == IF SubSeq(p, i + 1, i + 2) = "?:"
                           THEN i + 3 ELSE i + 1
               IN  [n |-> ParseAlt(t, from, close - 1), i |-> close + 1]
          [] c = "[" -> ParseClass(p, i)
          [] c = "\\" ->
               IF Ch(p, i + 1) = "b"
               THEN [n |-> [k |-> "wordb"], i |-> i + 2]
               ELSE [n |-> ChrNode(EscapeSet(Ch(p, i + 1)), FALSE), i |-> i + 2]
          [] c = "." -> [n |-> ChrNode({"\n"}, TRUE), i |-> i + 1]
          [] c = "^" -> [n |-> [k |-> "bol"], i |-> i + 1]
          [] c = "$" -> [n |-> [k |-> "eol"], i |-> i + 1]
          [] OTHER -> [n |-> ChrNode({c}, FALSE), i |-> i + 1]

\* A concatenation of quantified atoms: the atoms of positions lo..hi that
\* lie in no inner group.
ParseCat(t, lo, hi) ==
    LET starts == << >> \o Sorted({j \in lo..hi :
                                      /\ t.tok[j] \in AtomTokens
                                      /\ t.depth[j] = t.depth[lo]})
        repeated(a, q) == IF q.ok THEN RepNode(a.n, q.min, q.max) ELSE a.n
        quantified(a) == repeated(a, ParseQuantifier(t.p, a.i))
        item(j) == quantified(ParseAtom(t, j))
    IN  [k |-> "cat",
         items |-> << >> \o [k \in 1..Len(starts) |-> item(starts[k])]]

\* Alternatives separated by "|": the bars of positions lo..hi that lie in
\* no inner group cut the range into concatenations.
ParseAlt(t, lo, hi) ==
    LET cuts == << >> \o Sorted({j \in lo..hi :
                                    /\ t.tok[j] = "bar"
                                    /\ t.depth[j] = t.depth[lo]})
        from(k) == IF k = 1 THEN lo ELSE cuts[k - 1] + 1
        upto(k) == IF k > Len(cuts) THEN hi ELSE cuts[k] - 1
    IN  [k |-> "alt",
         items |-> << >> \o [k \in 1..(Len(cuts) + 1) |->
                                ParseCat(t, from(k), upto(k))]]

\* re.compile(pattern)
ReCompile(pattern) ==
    LET parse(tok) ==
            ParseAlt([p |-> pattern, tok |-> tok, depth |-> Depths(tok)],
                     1, Len(pattern))
    IN  parse(Tokens(pattern))

\* The flags of a call: ic = re.IGNORECASE, ml = re.MULTILINE.
FlagsNone == [ic |-> FALSE, ml |-> FALSE]
FlagsI == [ic |-> TRUE, ml |-> FALSE]
FlagsIM == [ic |-> TRUE, ml |-> TRUE]

\* Whether character c is matched by a one-character node.
ChrMatches(node, c, fl) ==
    /\ c # ""
    /\ (IF fl.ic THEN Fold(c) \in node.fset ELSE c \in node.set) # node.neg

\* A sequence without the later copies of its elements (the halves of the
\* sequence are cleaned one after the other).
RECURSIVE DedupRange(_, _, _)
DedupRange(seq, lo, hi) ==
    IF lo > hi THEN << >>
    ELSE IF lo = hi THEN << seq[lo] >>
    ELSE LET mid == (lo + hi) \div 2
             left == DedupRange(seq, lo, mid)
             seen == {left[k] : k \in 1..Len(left)}
         IN  left \o SelectSeq(DedupRange(seq, mid + 1, hi), LAMBDA x : x \notin seen)

Dedup(seq) ==
    DedupRange(seq, 1, Len(seq))

\* The number of consecutive characters from offset i that node matches,
\* at most limit (limit = -1: no limit).
RunLength(node, s, i, limit, fl) ==
    LET run(stops) == IF stops = {} THEN Len(s) - i ELSE SetMin(stops) - 1 - i
        capped(n) == IF limit # -1 /\ limit < n THEN limit ELSE n
    IN  capped(run({j \in (i + 1)..Len(s) : ~ChrMatches(node, Ch(s, j), fl)}))

\* hi, hi-1, ..., lo; nothing when hi < lo
Downto(hi, lo) ==
    IF hi < lo THEN << >> ELSE [k \in 1..(hi - lo + 1) |-> hi - k + 1]

RECURSIVE Ends(_, _, _, _)
RECURSIVE EndsAll(_, _, _, _, _, _)
RECURSIVE CatEnds(_, _, _, _, _, _)
RECURSIVE AltEnds(_, _, _, _, _, _)
RECURSIVE RepEnds(_, _, _, _, _)

\* The offsets at which a match of node that starts at offset i can end,
\* in the order in which the backtracking matcher tries them (greedy
\* repetitions first the longest, alternatives left to right).
Ends(node, s, i, fl) ==
    CASE node.k = "chr" ->
           IF ChrMatches(node, Ch(s, i + 1), fl) THEN << i + 1 >> ELSE << >>
      [] node.k = "bol" ->
           IF i = 0 \/ (fl.ml /\ Ch(s, i) = "\n") THEN << i >> ELSE << >>
      [] node.k = "eol" ->
           IF \/ i = Len(s)
              \/ (i = Len(s) - 1 /\ Ch(s, i + 1) = "\n")
              \/ (fl.ml /\ Ch(s, i + 1) = "\n")
           THEN << i >> ELSE << >>
      [] node.k = "wordb" ->
           IF (Ch(s, i) \in WordChars) # (Ch(s, i + 1) \in WordChars)
           THEN << i >> ELSE << >>
      [] node.k = "rep" ->
           IF node.sub.k = "chr"
           THEN Downto(i + RunLength(node.sub, s, i, node.max, fl), i + node.min)
           ELSE RepEnds(node, s, i, 0, fl)
      [] node.k = "cat" ->
           IF \A k \in 1..Len(node.items) : node.items[k].k = "chr"
           THEN IF \A k \in 1..Len(node.items) :
                       ChrMatches(node.items[k], Ch(s, i + k), fl)
                THEN << i + Len(node.items) >> ELSE << >>
           ELSE CatEnds(node.items, 1, Len(node.items), s, << i >>, fl)
      [] node.k = "alt" ->
           IF Len(node.items) = 1 THEN Ends(node.items[1], s, i, fl)
           ELSE Dedup(AltEnds(node.items, 1, Len(node.items), s, i, fl))

\* The ends of node from each of the offsets starts[lo..hi], in order.
EndsAll(node, s, starts, lo, hi, fl) ==
    IF lo > hi THEN << >>
    ELSE IF lo = hi THEN Ends(node, s, starts[lo], fl)
    ELSE EndsAll(node, s, starts, lo, (lo + hi) \div 2, fl)
         \o EndsAll(node, s, starts, (lo + hi) \div 2 + 1, hi, fl)

\* The ends of items[lo..hi] matched one after the other, from each of
\* the offsets in starts.
CatEnds(items, lo, hi, s, starts, fl) ==
    IF lo > hi \/ starts = << >> THEN starts
    ELSE IF lo = hi
         THEN Dedup(EndsAll(items[lo], s, starts, 1, Len(starts), fl))
    ELSE CatEnds(items, (lo + hi) \div 2 + 1, hi, s,
                 CatEnds(items, lo, (lo + hi) \div 2, s, starts, fl), fl)

\* The ends of the alternatives items[lo..hi] from offset i, the ends of
\* an earlier alternative first.
AltEnds(items, lo, hi, s, i, fl) ==
    IF lo > hi THEN << >>
    ELSE IF lo = hi THEN Ends(items[lo], s, i, fl)
    ELSE AltEnds(items, lo, (lo + hi) \div 2, s, i, fl)
         \o AltEnds(items, (lo + hi) \div 2 + 1, hi, s, i, fl)

\* A greedy repetition of a group: one more round first, then stopping here.
RepEnds(node, s, i, cnt, fl) ==
    LET further == IF node.max = -1 \/ cnt < node.max
                     THEN SelectSeq(Ends(node.sub, s, i, fl), LAMBDA e : e > i)
                     ELSE << >>
        RECURSIVE More(_)
        More(es) == IF es = << >> THEN << >>
                    ELSE RepEnds(node, s, Head(es), cnt + 1, fl) \o More(Tail(es))
    IN  Dedup(More(further) \o (IF cnt >= node.min THEN << i >> ELSE << >>))

NoMatch == [found |-> FALSE, start |-> -1, end |-> -1]

\* pattern.search(s, pos): the leftmost match that starts at or after
\* offset pos.  start and end are match.start() and match.end().
SearchFrom(re, s, pos, fl) ==
    LET match(i, ends) == [found |-> TRUE, start |-> i, end |-> Head(ends)]
        from(i) == match(i, Ends(re, s, i, fl))
        leftmost(starts) == IF starts = {} THEN NoMatch ELSE from(SetMin(starts))
    IN  leftmost({i \in pos..Len(s) : Ends(re, s, i, fl) # << >>})

\* re.search(pattern, s, flags) is not None
ReSearch(re, s, fl) ==
    SearchFrom(re, s, 0, fl).found

\* re.match(pattern, s) is not None: a match at offset 0 only.
ReMatch(re, s, fl) ==
    Ends(re, s, 0, fl) # << >>

\* match.group(0)
Group0(s, m) ==
    SubSeq(s, m.start + 1, m.end)

\* re.finditer(pattern, s, flags): the non-overlapping matches, left to
\* right.  After an empty match the scan moves on by one character.
RECURSIVE FindIterFrom(_, _, _, _)
RECURSIVE FindIterAfter(_, _, _, _)
FindIterFrom(re, s, pos, fl) ==
    FindIterAfter(re, s, SearchFrom(re, s, pos, fl), fl)

\* ... the match m, if it is one, and the matches after it.
FindIterAfter(re, s, m, fl) ==
    IF ~m.found THEN << >>
    ELSE << m >> \o FindIterFrom(re, s,
                                 IF m.end > m.start THEN m.end ELSE m.end + 1,
                                 fl)

ReFindIter(re, s, fl) ==
    FindIterFrom(re, s, 0, fl)

\* re.sub(pattern, repl, s): every match replaced by repl.
RECURSIVE SubFrom(_, _, _, _, _)
RECURSIVE SubAfter(_, _, _, _, _, _)
SubFrom(re, repl, s, pos, fl) ==
    SubAfter(re, repl, s, pos, SearchFrom(re, s, pos, fl), fl)

\* ... the text from offset pos with the match m, if it is one, replaced,
\* and the matches after it.
SubAfter(re, repl, s, pos, m, fl) ==
    IF ~m.found THEN SubSeq(s, pos + 1, Len(s))
    ELSE SubSeq(s, pos + 1, m.start) \o repl
         \o (IF m.end > m.start THEN "" ELSE Ch(s, m.end + 1))
         \o SubFrom(re, repl, s,
                    IF m.end > m.start THEN m.end ELSE m.end + 1, fl)

ReSub(re, repl, s) ==
    SubFrom(re, repl, s, 0, FlagsNone)

(***************************************************************************)
(* ast.parse: the syntax tree of a source text, or the exception raised.    *)
(* The parser below reads a subset of Python: statements one per line,      *)
(* blocks by indentation, the compound statements if/elif/else, while,      *)
(* for, with, try/except/finally, def, class and their async forms, and     *)
(* expressions built from names, numbers, strings, calls, not, and/or,      *)
(* comparisons and +.  Text outside the subset is rejected as a syntax      *)
(* error, as the text of the inputs that are not Python is.                 *)
(***************************************************************************)

\* A tree node: its class, its scalar attribute (Name.id, FunctionDef.name,
\* ClassDef.name, arg.arg, alias.name, and for a Constant the literal as it
\* is written, which tells the string '1' from the number 1) and its
\* node-valued fields in the order of the class's _fields.
Node(type, val, fields) ==
    [type |-> type, val |-> val, fields |-> fields]

Fld(name, nodes) ==
    [f |-> name, nodes |-> nodes]

\* node.<name>: the nodes of a field, << >> when the field is empty or None.
RECURSIVE FieldIn(_, _, _)
FieldIn(fields, k, name) ==
    IF k > Len(fields) THEN << >>
    ELSE IF fields[k].f = name THEN fields[k].nodes
         ELSE FieldIn(fields, k + 1, name)

Field(node, name) ==
    FieldIn(node.fields, 1, name)

Leaf(type) ==
    Node(type, "", << >>)

NameNode(id, ctx) ==
    Node("Name", id, << Fld("ctx", << Leaf(ctx) >>) >>)

Keywords ==
    {"False", "None", "True", "and", "as", "assert", "async", "await",
     "break", "class", "continue", "def", "del", "elif", "else", "except",
     "finally", "for", "from", "global", "if", "import", "in", "is",
     "lambda", "nonlocal", "not", "or", "pass", "raise", "return", "try",
     "while", "with", "yield"}

\* NAME: a letter or "_", then letters, digits and "_"; no keyword.
IsName(t) ==
    /\ Ch(t, 1) \in WordChars \ DigitChars
    /\ \A i \in 1..Len(t) : Ch(t, i) \in WordChars
    /\ t \notin Keywords

\* NUMBER: a decimal integer without a leading zero.
IsNumber(t) ==
    /\ t # ""
    /\ \A i \in 1..Len(t) : Ch(t, i) \in DigitChars
    /\ (Ch(t, 1) = "0" => Len(t) = 1)

\* The offset of the first occurrence of p in s at or after offset from,
\* -1 when there is none (str.find).
Find(s, p, from) ==
    LET at == {i \in from..(Len(s) - Len(p)) : SubSeq(s, i + 1, i + Len(p)) = p}
    IN  IF at = {} THEN -1 ELSE SetMin(at)

\* The text t stands between two marks q and holds the mark nowhere
\* between them, no backslash and, unless multiline, no line break.
IsQuoted(t, q, multiline) ==
    /\ Len(t) >= 2 * Len(q)
    /\ StartsWith(t, q)
    /\ Find(t, q, Len(q)) = Len(t) - Len(q)
    /\ \A i \in (Len(q) + 1)..(Len(t) - Len(q)) :
          /\ Ch(t, i) # "\\"
          /\ (multiline \/ Ch(t, i) # "\n")

\* STRING: '...' or "..." on one line
IsString(t) ==
    IsQuoted(t, "'", FALSE) \/ IsQuoted(t, "\"", FALSE)

\* ... or a triple-quoted text
IsDocString(t) ==
    IsQuoted(t, "'''", TRUE) \/ IsQuoted(t, "\"\"\"", TRUE)

\* s.split(sep) for a non-empty separator.
RECURSIVE SplitBy(_, _)
SplitBy(s, sep) ==
    LET at == Find(s, sep, 0)
    IN  IF at = -1 THEN << s >>
        ELSE << SubSeq(s, 1, at) >>
             \o SplitBy(SubSeq(s, at + Len(sep) + 1, Len(s)), sep)

Bad == [ok |-> FALSE, n |-> Leaf("")]
Good(node) == [ok |-> TRUE, n |-> node]

\* The value of a string literal: the text between its quotes.
StringValue(t) ==
    IF IsDocString(t) THEN SubSeq(t, 4, Len(t) - 3)
    ELSE SubSeq(t, 2, Len(t) - 1)

\* atom: NAME | NUMBER | STRING
ParseOperand(t) ==
    IF IsName(t) THEN Good(NameNode(t, "Load"))
    ELSE IF IsNumber(t) THEN Good(Node("Constant", t, << >>))
    ELSE IF IsString(t) \/ IsDocString(t)
         THEN Good(Node("Constant", t, << >>))
    ELSE Bad

\* The parse results of the texts of a list, all or nothing.
RECURSIVE AllGood(_)
AllGood(rs) ==
    rs = << >> \/ (Head(rs).ok /\ AllGood(Tail(rs)))

NodesOf(rs) ==
    [i \in 1..Len(rs) |-> rs[i].n]

\* primary: atom | NAME "(" [atom ("," atom)*] ")"
ParsePrimary(t) ==
    LET open == Find(t, "(", 0)
        inside == SubSeq(t, open + 2, Len(t) - 1)
        operands(texts) == [i \in 1..Len(texts) |-> ParseOperand(texts[i])]
        call(args) ==
            IF AllGood(args)
            THEN Good(Node("Call", "",
                           << Fld("func", << NameNode(SubSeq(t, 1, open), "Load") >>),
                              Fld("args", NodesOf(args)) >>))
            ELSE Bad
    IN  IF open > 0 /\ Ch(t, Len(t)) = ")" /\ IsName(SubSeq(t, 1, open))
        THEN IF inside = "" THEN call(<< >>)
             ELSE call(operands(SplitBy(inside, ", ")))
        ELSE ParseOperand(t)

\* sum: primary (" + " primary)*, left associative
RECURSIVE FoldSum(_, _, _)
FoldSum(left, rs, k) ==
    IF k > Len(rs) THEN left
    ELSE FoldSum(Node("BinOp", "",
                      << Fld("left", << left >>), Fld("op", << Leaf("Add") >>),
                         Fld("right", << rs[k].n >>) >>),
                 rs, k + 1)

ParsePrimaries(texts) ==
    [i \in 1..Len(texts) |-> ParsePrimary(texts[i])]

ParseSum(t) ==
    LET sum(rs) == IF ~AllGood(rs) THEN Bad ELSE Good(FoldSum(rs[1].n, rs, 2))
    IN  sum(ParsePrimaries(SplitBy(t, " + ")))

\* comparison: sum [(" > " | " == ") sum]
ParseSums(texts) ==
    [i \in 1..Len(texts) |-> ParseSum(texts[i])]

ParseComparison(t) ==
    LET op == IF Find(t, " > ", 0) # -1 THEN " > "
              ELSE IF Find(t, " == ", 0) # -1 THEN " == " ELSE ""
        compared(rs) ==
            IF ~AllGood(rs) \/ Len(rs) > 2 THEN Bad
            ELSE IF Len(rs) = 1 THEN rs[1]
            ELSE Good(Node("Compare", "",
                           << Fld("left", << rs[1].n >>),
                              Fld("ops", << Leaf(IF op = " > " THEN "Gt" ELSE "Eq") >>),
                              Fld("comparators", << rs[2].n >>) >>))
    IN  compared(ParseSums(IF op = "" THEN << t >> ELSE SplitBy(t, op)))

\* inversion: "not " inversion | comparison
RECURSIVE ParseNot(_)
ParseNot(t) ==
    LET negated(r) ==
            IF r.ok
            THEN Good(Node("UnaryOp", "",
                           << Fld("op", << Leaf("Not") >>),
                              Fld("operand", << r.n >>) >>))
            ELSE Bad
    IN  IF StartsWith(t, "not ") THEN negated(ParseNot(SubSeq(t, 5, Len(t))))
        ELSE ParseComparison(t)

\* A chain a <op> b <op> c ... is one BoolOp whose values are its operands.
BoolOpOf(op, rs) ==
    IF ~AllGood(rs) THEN Bad
    ELSE IF Len(rs) = 1 THEN rs[1]
    ELSE Good(Node("BoolOp", "",
                   << Fld("op", << Leaf(op) >>), Fld("values", NodesOf(rs)) >>))

\* conjunction: inversion (" and " inversion)*
ParseInversions(texts) ==
    [i \in 1..Len(texts) |-> ParseNot(texts[i])]

ParseAnd(t) ==
    BoolOpOf("And", ParseInversions(SplitBy(t, " and ")))

\* expression: conjunction (" or " conjunction)*
ParseConjunctions(texts) ==
    [i \in 1..Len(texts) |-> ParseAnd(texts[i])]

ParseExpr(t) ==
    BoolOpOf("Or", ParseConjunctions(SplitBy(t, " or ")))

\* A Python value that is an int, a str or None, tagged with its type (the
\* payload of each type under a name of its own).
PyInt(n) == [t |-> "int", n |-> n]
PyStr(s) == [t |-> "str", v |-> s]
PyNone == [t |-> "NoneType"]

\* An exception: its class, its message, and for a SyntaxError the lineno
\* attribute (an int, or None when the parser attached no location).
Exc(cls, lineno, msg) ==
    [cls |-> cls, lineno |-> lineno, msg |-> msg]

\* The exception classes that are SyntaxError or derive from it.
SyntaxErrorClasses == {"SyntaxError", "IndentationError", "TabError"}
\* ... and those that are IndentationError or derive from it.
IndentationErrorClasses == {"IndentationError", "TabError"}

\* A simple statement (one that fits on a line and holds no block).
ParseSimple(t) ==
    LET eq == Find(t, " = ", 0)
        \* the statement the text starts, the field of its expression and
        \* the position at which the expression starts
        form == CASE StartsWith(t, "return ") -> << "Return", "value", 8 >>
                  [] StartsWith(t, "raise ") -> << "Raise", "exc", 7 >>
                  [] StartsWith(t, "assert ") -> << "Assert", "test", 8 >>
                  [] StartsWith(t, "import ") -> << "Import", "names", 8 >>
                  [] eq > 0 /\ IsName(SubSeq(t, 1, eq)) -> << "Assign", "value", eq + 4 >>
                  [] OTHER -> << "Expr", "value", 1 >>
        import(name) ==
            IF IsName(name)
            THEN Good(Node("Import", "",
                           << Fld("names", << Node("alias", name, << >>) >>) >>))
            ELSE Bad
        assign(e) ==
            IF e.ok
            THEN Good(Node("Assign", "",
                           << Fld("targets", << NameNode(SubSeq(t, 1, eq), "Store") >>),
                              Fld("value", << e.n >>) >>))
            ELSE Bad
        one(type, field, e) ==
            IF e.ok THEN Good(Node(type, "", << Fld(field, << e.n >>) >>))
            ELSE Bad
        statement(f, e) ==
            CASE f[1] = "Import" -> import(SubSeq(t, f[3], Len(t)))
              [] f[1] = "Assign" -> assign(e)
              [] OTHER -> one(f[1], f[2], e)
    IN  CASE t = "pass" -> Good(Leaf("Pass"))
          [] t = "return" -> Good(Leaf("Return"))
          [] t = "raise" -> Good(Leaf("Raise"))
          [] OTHER -> statement(form, ParseExpr(SubSeq(t, form[3], Len(t))))

\* The indentation of a physical line: n leading blanks and tabs, the
\* column col they reach with tab stops every 8 columns, and the column
\* alt they reach with tab stops every column (the tokenizer compares both
\* to tell inconsistent tabs).
RECURSIVE IndentFrom(_, _, _, _)
IndentFrom(line, i, col, alt) ==
    IF Ch(line, i) = " " THEN IndentFrom(line, i + 1, col + 1, alt + 1)
    ELSE IF Ch(line, i) = "\t"
         THEN IndentFrom(line, i + 1, ((col \div 8) + 1) * 8, alt + 1)
         ELSE [n |-> i - 1, col |-> col, alt |-> alt]

\* The mark of a text in triple quotes that the text of a line opens and
\* does not close ("" when it opens and leaves open none): such a line is
\* a statement that goes on in the lines after it.
OpenMark(text) ==
    IF StartsWith(text, "\"\"\"") /\ Find(text, "\"\"\"", 3) = -1
    THEN "\"\"\""
    ELSE IF StartsWith(text, "'''") /\ Find(text, "'''", 3) = -1 THEN "'''"
    ELSE ""

\* The first line after line k that holds the mark q, 0 when none does.
MarkAfter(lines, k, q) ==
    SetMin({j \in (k + 1)..Len(lines) : Contains(lines[j], q)} \cup {Len(lines) + 1})
        % (Len(lines) + 1)

\* The statements of several lines from line k on: the pairs of the line
\* that opens a text in triple quotes and the line that closes it.
RECURSIVE StringSpans(_, _, _)
StringSpans(lines, texts, k) ==
    LET openers == {o \in k..Len(lines) :
                       /\ OpenMark(texts[o]) # ""
                       /\ MarkAfter(lines, o, OpenMark(texts[o])) # 0}
        from(o) == {<< o, MarkAfter(lines, o, OpenMark(texts[o])) >>}
                   \cup StringSpans(lines, texts,
                                    MarkAfter(lines, o, OpenMark(texts[o])) + 1)
    IN  IF openers = {} THEN {} ELSE from(SetMin(openers))

\* The lines from the k-th to the last-th, each after a line break.
RECURSIVE LinesAfter(_, _, _)
LinesAfter(lines, k, last) ==
    IF k > last THEN ""
    ELSE "\n" \o lines[k] \o LinesAfter(lines, k + 1, last)

\* The lines that hold a statement (neither blank nor a comment), each with
\* its 1-based number, its indentation and its text without the indentation
\* and without trailing blanks; a text in triple quotes that starts a line
\* and ends in a later one is one statement with the lines between.
LogicalLines(lines) ==
    LET ind(k) == IndentFrom(lines[k], 1, 0, 0)
        all == [k \in 1..Len(lines) |->
                   [no |-> k, col |-> ind(k).col, alt |-> ind(k).alt,
                    text |-> RStrip(SubSeq(lines[k], ind(k).n + 1, Len(lines[k])))]]
        whole(spans) ==
            [k \in 1..Len(lines) |->
                IF \E sp \in spans : sp[1] = k
                THEN [all[k] EXCEPT
                         !.text = RStrip(@ \o LinesAfter(lines, k + 1,
                                      (CHOOSE sp \in spans : sp[1] = k)[2]))]
                ELSE IF \E sp \in spans : sp[1] < k /\ k <= sp[2]
                     THEN [all[k] EXCEPT !.text = ""]
                     ELSE all[k]]
        statements(ls) ==
            SelectSeq(ls, LAMBDA l : l.text # "" /\ Ch(l.text, 1) # "#")
    IN  IF \A k \in 1..Len(lines) : OpenMark(all[k].text) = ""
        THEN statements(all)
        ELSE statements(whole(StringSpans(lines, [k \in 1..Len(lines) |-> all[k].text], 1)))

\* The number of the last line of the text, where the parser reports what
\* it misses at the end of the input.
LastLineNo(s) ==
    LET last(lines) ==
            IF Len(lines) > 1 /\ lines[Len(lines)] = "" THEN Len(lines) - 1
            ELSE Len(lines)
    IN  last(SplitLines(s))

\* The results of the statement parsers: ok with the statements read and
\* the index of the next logical line, or the exception.
Parsed(stmts, next) ==
    [ok |-> TRUE, stmts |-> stmts, next |-> next, exc |-> Exc("", PyNone, "")]

Failed(exc) ==
    [ok |-> FALSE, stmts |-> << >>, next |-> 0, exc |-> exc]

InvalidSyntax(no) ==
    Failed(Exc("SyntaxError", PyInt(no), "invalid syntax"))

\* The header of a compound statement "<kw> <head>: <rest>".
Header(t, kw) ==
    LET colon == Find(t, ":", 0)
    IN  [ok |-> StartsWith(t, kw) /\ colon >= Len(kw),
         head |-> Strip(SubSeq(t, Len(kw) + 1, colon)),
         rest |-> Strip(SubSeq(t, colon + 2, Len(t)))]

\* The parameters of a def: names separated by commas.
ParseParams(t) ==
    LET stripped(parts) == [i \in 1..Len(parts) |-> Strip(parts[i])]
        params(texts) ==
            [ok |-> \A i \in 1..Len(texts) : IsName(texts[i]),
             n |-> Node("arguments", "",
                        << Fld("args",
                               [i \in 1..Len(texts) |-> Node("arg", texts[i], << >>)]) >>)]
    IN  params(stripped(IF Strip(t) = "" THEN << >> ELSE SplitBy(t, ",")))

\* The sequences seqs[lo..hi], one after the other.
RECURSIVE Flatten(_, _, _)
Flatten(seqs, lo, hi) ==
    IF lo > hi THEN << >>
    ELSE IF lo = hi THEN seqs[lo]
    ELSE Flatten(seqs, lo, (lo + hi) \div 2)
         \o Flatten(seqs, (lo + hi) \div 2 + 1, hi)

\* Whether the text is the header of a clause that has the bare keyword kw
\* before its colon (else, try, finally).
IsBareHeader(t, kw) ==
    Header(t, kw).ok /\ Header(t, kw).head = ""

\* The states of a compound statement, by the clauses that may still follow:
\* "if" (elif, else), "try" (except, finally), "except" (except, else,
\* finally), "tryelse" (finally), "loop" (else), "end" (none).
\* The keyword of the clause that a line with text t starts in a state, ""
\* when the line continues no statement.
Continues(state, t) ==
    CASE state = "if" /\ StartsWith(t, "elif ") -> "elif "
      [] state \in {"try", "except"} /\ Header(t, "except").ok -> "except"
      [] state \in {"if", "except", "loop"} /\ IsBareHeader(t, "else") -> "else"
      [] state \in {"try", "except", "tryelse"} /\ IsBareHeader(t, "finally") ->
           "finally"
      [] OTHER -> ""

\* The state after a clause with keyword kw read in a state ("": the clause
\* opens the statement).
StateAfter(state, kw) ==
    CASE kw \in {"if ", "elif "} -> "if"
      [] kw = "try" -> "try"
      [] kw = "except" -> "except"
      [] kw = "else" /\ state = "except" -> "tryelse"
      [] kw \in {"while ", "for "} -> "loop"
      [] OTHER -> "end"

\* The header "<kw> <head>: <rest>" of a clause: whether it is well formed
\* apart from its expression, the text of the expression it holds if any
\* (wants), for a def the text of its parameters.
ClauseHead(t, kw, prefix) ==
    LET head(hd, in, open) ==
            [kw |-> kw, prefix |-> prefix, head |-> hd.head, rest |-> hd.rest,
             ok |-> CASE kw = "for " ->
                           hd.ok /\ in > 0 /\ IsName(SubSeq(hd.head, 1, in))
                      [] kw = "def " ->
                           /\ hd.ok /\ open > 0
                           /\ Ch(hd.head, Len(hd.head)) = ")"
                           /\ IsName(SubSeq(hd.head, 1, open))
                      [] kw = "class " -> hd.ok /\ IsName(hd.head) /\ prefix = ""
                      [] kw = "except" -> hd.head = "" \/ Ch(t, 7) = " "
                      [] kw \in {"else", "try", "finally"} -> TRUE
                      [] OTHER -> hd.ok /\ (kw # "while " \/ prefix = ""),
             wants |-> \/ kw \in {"if ", "elif ", "while ", "with ", "for "}
                       \/ (kw = "except" /\ hd.head # ""),
             expr |-> IF kw = "for " THEN SubSeq(hd.head, in + 5, Len(hd.head))
                      ELSE hd.head,
             name |-> CASE kw = "for " -> SubSeq(hd.head, 1, in)
                        [] kw = "def " -> SubSeq(hd.head, 1, open)
                        [] OTHER -> hd.head,
             params |-> SubSeq(hd.head, open + 2, Len(hd.head) - 1)]
        found(hd) == head(hd, Find(hd.head, " in ", 0), Find(hd.head, "(", 0))
    IN  found(Header(t, kw))

\* A clause read: its keyword, the name it holds (the target of a for, the
\* name of a def or a class), the node of its expression or parameters and
\* the statements of its body.
ClauseOf(no, h, e, params, body) ==
    IF ~h.ok \/ (h.wants /\ ~e.ok) \/ (h.kw = "def " /\ ~params.ok)
    THEN InvalidSyntax(no)
    ELSE IF ~body.ok THEN body
    ELSE Parsed(<< [kw |-> h.kw, prefix |-> h.prefix, name |-> h.name,
                    e |-> IF h.wants THEN << e.n >>
                          ELSE IF h.kw = "def " THEN << params.n >> ELSE << >>,
                    body |-> body.stmts] >>,
                body.next)

\* The bodies of the clauses with keyword kw among cs, one after the other.
BodyOf(cs, kw) ==
    Flatten([i \in 1..Len(cs) |-> IF cs[i].kw = kw THEN cs[i].body ELSE << >>],
            1, Len(cs))

\* if / elif: test, body and what follows as orelse (an elif clause as a
\* nested If).
RECURSIVE IfNode(_, _)
IfNode(cs, i) ==
    Node("If", "",
         << Fld("test", cs[i].e), Fld("body", cs[i].body),
            Fld("orelse", IF i = Len(cs) THEN << >>
                          ELSE IF cs[i + 1].kw = "else" THEN cs[i + 1].body
                          ELSE << IfNode(cs, i + 1) >>) >>)

\* The except clauses among cs.
Handlers(cs) ==
    LET handler(c) ==
            Node("ExceptHandler", "", << Fld("type", c.e), Fld("body", c.body) >>)
        excepts == SelectSeq(cs, LAMBDA c : c.kw = "except")
    IN  [i \in 1..Len(excepts) |-> handler(excepts[i])]

\* The node of the compound statement whose clauses are cs.
CompoundNode(cs) ==
    LET c == cs[1]
        kw == c.kw
    IN  CASE kw = "if " -> IfNode(cs, 1)
          [] kw = "try" ->
               Node("Try", "",
                    << Fld("body", c.body), Fld("handlers", Handlers(cs)),
                       Fld("orelse", BodyOf(cs, "else")),
                       Fld("finalbody", BodyOf(cs, "finally")) >>)
          [] kw = "while " ->
               Node("While", "",
                    << Fld("test", c.e), Fld("body", c.body),
                       Fld("orelse", BodyOf(cs, "else")) >>)
          [] kw = "for " ->
               Node(c.prefix \o "For", "",
                    << Fld("target", << NameNode(c.name, "Store") >>),
                       Fld("iter", c.e), Fld("body", c.body),
                       Fld("orelse", BodyOf(cs, "else")) >>)
          [] kw = "with " ->
               Node(c.prefix \o "With", "",
                    << Fld("items",
                           << Node("withitem", "",
                                   << Fld("context_expr", c.e) >>) >>),
                       Fld("body", c.body) >>)
          [] kw = "def " ->
               Node(c.prefix \o "FunctionDef", c.name,
                    << Fld("args", c.e), Fld("body", c.body) >>)
          [] OTHER ->
               Node("ClassDef", c.name, << Fld("body", c.body) >>)

\* The compound statement read as the clauses r.  A try needs an except or
\* a finally clause; what misses is reported at the line that follows.
Compound(src, r) ==
    IF ~r.ok THEN r
    ELSE IF r.stmts[1].kw = "try" /\ Len(r.stmts) = 1
         THEN Failed(Exc("SyntaxError",
                         PyInt(IF r.next <= Len(src.ll) THEN src.ll[r.next].no
                               ELSE src.last),
                         "expected 'except' or 'finally' block"))
    ELSE Parsed(<< CompoundNode(r.stmts) >>, r.next)

\* The index of the logical line that ends the block of column col that
\* starts at logical line k: the first line further left, or the end.
BlockEnd(src, k, col) ==
    SetMin({i \in k..Len(src.ll) : src.ll[i].col < col} \cup {Len(src.ll) + 1})

\* Whether a line with text t starts a later clause of a statement.
StartsClause(t) ==
    \/ StartsWith(t, "elif ")
    \/ Header(t, "except").ok
    \/ IsBareHeader(t, "else")
    \/ IsBareHeader(t, "finally")

\* The logical lines at which the statements of that block start when
\* every statement is well formed: line k and the lines at column col that
\* start no later clause.
StatementLines(src, k, col) ==
    SelectSeq([i \in 1..(BlockEnd(src, k, col) - k) |-> k + i - 1],
              LAMBDA i : \/ i = k
                         \/ /\ src.ll[i].col = col
                            /\ ~StartsClause(src.ll[i].text))

RECURSIVE ParseBlock(_, _, _, _, _)
RECURSIVE BlockOf(_, _, _, _, _, _)
RECURSIVE BlockFrom(_, _, _, _, _, _, _)
RECURSIVE ParseSuite(_, _, _)
RECURSIVE ParseClause(_, _, _, _)
RECURSIVE ClauseWith(_, _, _)
RECURSIVE ParseClauses(_, _, _, _, _, _, _)
RECURSIVE ClausesFrom(_, _, _, _, _)
RECURSIVE ParseStatement(_, _)

\* The statements of one block: the logical lines from index k on that
\* stand at column col.  A line further left ends the block; a line further
\* right is an indentation error (afterBlock: the line before it closed a
\* deeper block, so it is a dedent to a column no block has).
ParseBlock(src, k, col, alt, afterBlock) ==
    IF k > Len(src.ll) \/ src.ll[k].col < col THEN Parsed(<< >>, k)
    ELSE IF src.ll[k].col > col /\ ~afterBlock /\ src.ll[k].alt <= alt
         THEN Failed(Exc("TabError", PyInt(src.ll[k].no),
                         "inconsistent use of tabs and spaces in indentation"))
    ELSE IF src.ll[k].col > col
         THEN Failed(Exc("IndentationError", PyInt(src.ll[k].no),
                         IF afterBlock
                         THEN "unindent does not match any outer indentation level"
                         ELSE "unexpected indent"))
    ELSE IF src.ll[k].alt # alt
         THEN Failed(Exc("TabError", PyInt(src.ll[k].no),
                         "inconsistent use of tabs and spaces in indentation"))
    ELSE BlockOf(src, k, col, alt, StatementLines(src, k, col),
                 BlockEnd(src, k, col))

\* ... with the statements read that start at the lines at.
BlockOf(src, k, col, alt, at, end) ==
    BlockFrom(src, k, col, alt, at, end,
              SelectSeq([j \in 1..Len(at) |-> ParseStatement(src, at[j])],
                        LAMBDA st : TRUE))

\* ... the statement sts[1] at logical line k, then the rest of the block.
\* When each of the statements sts is well formed and ends where the next
\* one starts, the last one at the end of the block, they are the block;
\* otherwise the rest of the block is read from where sts[1] ends.
BlockFrom(src, k, col, alt, at, end, sts) ==
    LET joined(more) ==
            IF ~more.ok THEN more
            ELSE Parsed(sts[1].stmts \o more.stmts, more.next)
        whole ==
            \A j \in 1..Len(at) :
                /\ sts[j].ok
                /\ src.ll[at[j]].alt = alt
                /\ sts[j].next = IF j < Len(at) THEN at[j + 1] ELSE end
    IN  IF whole
        THEN Parsed(Flatten([j \in 1..Len(at) |-> sts[j].stmts], 1, Len(at)),
                    end)
        ELSE IF ~sts[1].ok THEN sts[1]
        ELSE joined(ParseBlock(src, sts[1].next, col, alt, sts[1].next > k + 1))

\* The body of the clause whose header is logical line k: the simple
\* statement after the colon, or the indented block that follows.
ParseSuite(src, k, rest) ==
    LET inline(r) ==
            IF r.ok THEN Parsed(<< r.n >>, k + 1)
            ELSE InvalidSyntax(src.ll[k].no)
    IN  IF rest # "" THEN inline(ParseSimple(rest))
        ELSE IF k = Len(src.ll)
             THEN Failed(Exc("IndentationError", PyInt(src.last),
                             "expected an indented block"))
        ELSE IF src.ll[k + 1].col <= src.ll[k].col
             THEN Failed(Exc("IndentationError", PyInt(src.ll[k + 1].no),
                             "expected an indented block"))
        ELSE IF src.ll[k + 1].alt <= src.ll[k].alt
             THEN Failed(Exc("TabError", PyInt(src.ll[k + 1].no),
                             "inconsistent use of tabs and spaces in indentation"))
        ELSE ParseBlock(src, k + 1, src.ll[k + 1].col, src.ll[k + 1].alt, FALSE)

\* One clause of a compound statement, at logical line k: its header, which
\* starts with the keyword kw (after "async " when prefix is "Async"), and
\* its body.
ParseClause(src, k, kw, prefix) ==
    ClauseWith(src, k,
               ClauseHead(IF prefix = "" THEN src.ll[k].text
                          ELSE SubSeq(src.ll[k].text, 7, Len(src.ll[k].text)),
                          kw, prefix))

\* ... with the header h read: the expression of the header (for a def its
\* parameters), then the body.
ClauseWith(src, k, h) ==
    ClauseOf(src.ll[k].no, h, ParseExpr(h.expr), ParseParams(h.params),
             ParseSuite(src, k, h.rest))

\* The clauses of one compound statement from logical line k on, where a
\* clause with keyword kw starts; after it the statement is in state.
ParseClauses(src, k, col, alt, state, kw, prefix) ==
    ClausesFrom(src, col, alt, state, ParseClause(src, k, kw, prefix))

\* ... the clause c, then the clauses that continue the statement.
ClausesFrom(src, col, alt, state, c) ==
    LET k == c.next
        kw == IF k > Len(src.ll) \/ src.ll[k].col # col \/ src.ll[k].alt # alt
              THEN ""
              ELSE Continues(state, src.ll[k].text)
        joined(more) ==
            IF ~more.ok THEN more
            ELSE Parsed(c.stmts \o more.stmts, more.next)
    IN  IF ~c.ok \/ kw = "" THEN c
        ELSE joined(ParseClauses(src, k, col, alt, StateAfter(state, kw), kw, ""))

\* One statement, starting at logical line k.
ParseStatement(src, k) ==
    LET l == src.ll[k]
        t == l.text
        async == StartsWith(t, "async ")
        u == IF async THEN SubSeq(t, 7, Len(t)) ELSE t
        kw == CASE StartsWith(t, "if ") -> "if "
                [] Header(t, "try").ok /\ Header(t, "try").head = "" -> "try"
                [] StartsWith(t, "while ") -> "while "
                [] StartsWith(t, "class ") -> "class "
                [] StartsWith(u, "for ") -> "for "
                [] StartsWith(u, "with ") -> "with "
                [] StartsWith(u, "def ") -> "def "
                [] OTHER -> ""
        simple(r) ==
            IF r.ok THEN Parsed(<< r.n >>, k + 1)
            ELSE InvalidSyntax(l.no)
    IN  IF kw = "" THEN simple(ParseSimple(t))
        ELSE Compound(src,
                      ParseClauses(src, k, l.col, l.alt, StateAfter("", kw), kw,
                                   IF async /\ kw \in {"for ", "with ", "def "}
                                   THEN "Async" ELSE ""))

\* The outcome of ast.parse(s): the Module node, or the exception raised.
\* A text that holds a null character is rejected before any line is read,
\* with an exception that carries no location; nullAs is the class of that
\* exception in the running interpreter (ValueError in older interpreters,
\* SyntaxError in newer ones).
AstParse(s, nullAs) ==
    LET module(r) ==
            [ok |-> r.ok,
             tree |-> Node("Module", "", << Fld("body", r.stmts) >>),
             exc |-> r.exc]
    IN  IF Contains(s, NUL)
        THEN [ok |-> FALSE, tree |-> Leaf(""),
              exc |-> Exc(nullAs, PyNone, "source code string cannot contain null bytes")]
        ELSE module(ParseBlock([ll |-> LogicalLines(SplitLines(s)),
                                last |-> LastLineNo(s)],
                               1, 0, 0, FALSE))

\* ast.iter_child_nodes(node): the nodes of its fields, in field order.
IterChildNodes(node) ==
    Flatten([k \in 1..Len(node.fields) |-> node.fields[k].nodes],
            1, Len(node.fields))

\* ast.walk(tree): every node of the tree, breadth first.  The queue of
\* the walk yields the nodes of one depth, left to right, and behind them
\* their children: the walk is the levels of the tree one after the other.
RECURSIVE WalkLevels(_)
WalkLevels(level) ==
    IF level = << >> THEN << >>
    ELSE level
         \o WalkLevels(Flatten([k \in 1..Len(level) |-> IterChildNodes(level[k])],
                               1, Len(level)))

AstWalk(tree) ==
    WalkLevels(<< tree >>)

\* len([n for n in ast.walk(tree) if isinstance(n, types)])
CountNodes(nodes, types) ==
    Cardinality({i \in 1..Len(nodes) : nodes[i].type \in types})

(***************************************************************************)
(* Values, results and the formatting of the records                       *)
(***************************************************************************)

\* More Python values: a bytes object and a list.
PyBytes(s) == [t |-> "bytes", v |-> s]
PyList(seq) == [t |-> "list", items |-> seq]

\* An int and a str of which the model follows the type only (the column
\* and the text of the line that a located SyntaxError carries).
AnInt == [t |-> "int"]
AStr == [t |-> "str"]

\* isinstance(code, str)
IsStr(v) ==
    v.t = "str"

\* len(v) raises a TypeError for a value without a length.
HasLen(v) ==
    v.t \in {"str", "bytes", "list"}

LenError(v) ==
    Exc("TypeError", PyNone, "object of type '" \o v.t \o "' has no len()")

\* code.split("\n") of a value that is not a str: bytes refuse a str
\* separator, other values have no such method.
SplitError(v) ==
    IF v.t = "bytes"
    THEN Exc("TypeError", PyNone, "a bytes-like object is required, not 'str'")
    ELSE Exc("AttributeError", PyNone,
             "'" \o v.t \o "' object has no attribute 'split'")

\* re.finditer(pattern, code) of a value that is not a str.
PatternError(v) ==
    IF v.t = "bytes"
    THEN Exc("TypeError", PyNone,
             "cannot use a string pattern on a bytes-like object")
    ELSE Exc("TypeError", PyNone,
             "expected string or bytes-like object, got '" \o v.t \o "'")

\* str(e): a SyntaxError that has a location appends it to its message.
ExcStr(e) ==
    IF e.cls \in SyntaxErrorClasses /\ e.lineno.t = "int"
    THEN e.msg \o " (<unknown>, line " \o ToString(e.lineno.n) \o ")"
    ELSE e.msg

\* How a call of an analyzer ends: it returns a record (the object that
\* json.dumps writes) or an exception leaves it.  In a record, a key that
\* always holds one type holds the plain value; a key that may hold values
\* of several types (line, offset, text, warnings) holds a tagged value.
NoValue == [none |-> TRUE]
NoExc == Exc("", PyNone, "")
Return(value) == [raised |-> FALSE, value |-> value, exc |-> NoExc]
Raise(exc) == [raised |-> TRUE, value |-> NoValue, exc |-> exc]

\* str(list) of a list of strings without quotes in them: ['a', 'b'].
RECURSIVE JoinRepr(_, _)
JoinRepr(strs, k) ==
    IF k > Len(strs) THEN ""
    ELSE (IF k > 1 THEN ", " ELSE "") \o "'" \o strs[k] \o "'"
         \o JoinRepr(strs, k + 1)

ReprStrList(strs) ==
    "[" \o JoinRepr(strs, 1) \o "]"

\* str(list) of a list of ints: [1, 2].
RECURSIVE JoinInts(_, _)
JoinInts(ints, k) ==
    IF k > Len(ints) THEN ""
    ELSE (IF k > 1 THEN ", " ELSE "") \o ToString(ints[k]) \o JoinInts(ints, k + 1)

ReprIntList(ints) ==
    "[" \o JoinInts(ints, 1) \o "]"

\* re.findall(pattern, s) for a pattern without groups: the matched texts.
ReFindAll(re, s, fl) ==
    LET texts(ms) == [i \in 1..Len(ms) |-> Group0(s, ms[i])]
    IN  texts(ReFindIter(re, s, fl))

\* The records of the input validation every tree-based analyzer but the
\* documentation analyzer starts with.
InvalidInputType ==
    [error |-> "Invalid input type",
     details |-> "Input must be a string containing Python code"]

EmptyInput ==
    [error |-> "Empty input",
     details |-> "Input code cannot be empty or contain only whitespace"]

\* The record of an except clause that reports a parse failure under the
\* category it names.  getattr(e, "lineno", "unknown") finds the attribute
\* on every SyntaxError, so its default is never used: the record holds the
\* attribute, None when the error has no location.
ParseFailure(category, e) ==
    [error |-> category,
     details |-> ExcStr(e),
     line |-> e.lineno,
     offset |-> IF e.lineno.t = "int" THEN AnInt ELSE PyNone,
     text |-> IF e.lineno.t = "int" THEN AStr ELSE PyNone]

\* The record of the last except clause, "except Exception".
AnalysisFailed(category, e) ==
    [error |-> category, details |-> ExcStr(e), error_type |-> e.cls]

\* The check for leading zeros, common to the pre-scans.
LeadingZeroRe == ReCompile("\\b0[0-9]+\\b")

LeadingZeroIssues(code) ==
    LET issues(ms) ==
            IF ms # << >>
            THEN << "Leading zeros in integer literals: " \o ReprStrList(ms) >>
            ELSE << >>
    IN  issues(ReFindAll(LeadingZeroRe, code, FlagsNone))

\* "warnings": syntax_issues if syntax_issues else None
WarningsOf(syntax_issues) ==
    IF syntax_issues # << >> THEN PyList(syntax_issues) ELSE PyNone

(***************************************************************************)
(* try / except: the clause that catches an exception                      *)
(***************************************************************************)

\* The classes an exception of class cls is an instance of.
ClassesOf(cls) ==
    CASE cls = "TabError" ->
           {"TabError", "IndentationError", "SyntaxError", "Exception"}
      [] cls = "IndentationError" ->
           {"IndentationError", "SyntaxError", "Exception"}
      [] OTHER -> {cls, "Exception"}

\* The first of the except clauses, tried in the order they are written,
\* that names a class of the exception; 0 when none does.
RECURSIVE FirstHandler(_, _, _)
FirstHandler(clauses, e, k) ==
    IF k > Len(clauses) THEN 0
    ELSE IF clauses[k] \in ClassesOf(e.cls) THEN k
         ELSE FirstHandler(clauses, e, k + 1)

(***************************************************************************)
(* calculate_code_complexity                                               *)
(***************************************************************************)

\* The pre-scan for mixed tabs and spaces in the indentation of a line.
RECURSIVE MixedTabIssuesFrom(_, _)
MixedTabIssuesFrom(lines, i) ==
    IF i > Len(lines) THEN << >>
    ELSE LET line == lines[i]
             atRoot == /\ Strip(line) # ""
                       /\ ~StartsWith(line, " ")
                       /\ ~StartsWith(line, "\t")
             indent == SubSeq(line, 1, Len(line) - Len(LStrip(line)))
             mixed == /\ ~atRoot
                      /\ Strip(line) # ""
                      /\ Contains(line, "\t")
                      /\ Contains(indent, " ")
         IN  (IF mixed
              THEN << "Mixed tabs and spaces at line " \o ToString(i) >>
              ELSE << >>)
             \o MixedTabIssuesFrom(lines, i + 1)

\* Two miscounts the complexity properties have to tell from the loop body
\* of the analyzer: one that counts a return statement as a decision, one
\* in which an if statement lowers the count.
ComplexityAddedWithReturn(node) ==
    IF node.type \in {"If", "While", "For", "AsyncFor", "ExceptHandler",
                      "With", "AsyncWith", "Assert", "Raise", "Return"}
    THEN 1
    ELSE IF node.type = "BoolOp" THEN Len(Field(node, "values")) - 1
    ELSE 0

ComplexityAddedIfLowers(node) ==
    IF node.type = "If" THEN -1
    ELSE IF node.type \in {"While", "For", "AsyncFor", "ExceptHandler",
                           "With", "AsyncWith", "Assert", "Raise"}
    THEN 1
    ELSE IF node.type = "BoolOp" THEN Len(Field(node, "values")) - 1
    ELSE 0

\* A classification with the boundaries on the wrong side: 5 is "medium"
\* and 10 is "high".
ComplexityLevelExclusive(complexity) ==
    IF complexity < 5 THEN "low"
    ELSE IF complexity < 10 THEN "medium"
    ELSE "high"

\* What the loop body adds to the complexity for one node of the walk:
\* its if / elif chain, "complexity += n" in each branch.
ComplexityAdded(node) ==
    IF node.type \in {"If", "While", "For", "AsyncFor"} THEN 1
    ELSE IF node.type = "ExceptHandler" THEN 1
    ELSE IF node.type = "With" THEN 1
    ELSE IF node.type = "AsyncWith" THEN 1
    ELSE IF node.type = "BoolOp" THEN Len(Field(node, "values")) - 1
    ELSE IF node.type = "Assert" THEN 1
    ELSE IF node.type = "Return" THEN 0
    ELSE IF node.type = "Raise" THEN 1
    ELSE 0

\* for node in ast.walk(tree): ... what the loop adds over nodes[lo..hi].
RECURSIVE ComplexityOver(_, _, _)
ComplexityOver(nodes, lo, hi) ==
    IF lo > hi THEN 0
    ELSE IF lo = hi THEN ComplexityAdded(nodes[lo])
    ELSE ComplexityOver(nodes, lo, (lo + hi) \div 2)
         + ComplexityOver(nodes, (lo + hi) \div 2 + 1, hi)

ComplexityLevel(complexity) ==
    IF complexity <= 5 THEN "low"
    ELSE IF complexity <= 10 THEN "medium"
    ELSE "high"

\* The except clauses of the analyzer, in the order they are written.
ComplexityHandlers ==
    << "SyntaxError", "IndentationError", "ValueError", "Exception" >>

calculate_code_complexity(code, nullAs) ==
    IF ~IsStr(code) THEN Return(InvalidInputType)
    ELSE IF Strip(code.v) = "" THEN Return(EmptyInput)
    ELSE LET report(nodes, complexity, syntax_issues) ==
                 Return([cyclomatic_complexity |-> complexity,
                         function_count |-> CountNodes(nodes, {"FunctionDef"}),
                         class_count |-> CountNodes(nodes, {"ClassDef"}),
                         import_count |-> CountNodes(nodes, {"Import", "ImportFrom"}),
                         assignment_count |-> CountNodes(nodes, {"Assign"}),
                         call_count |-> CountNodes(nodes, {"Call"}),
                         complexity_level |-> ComplexityLevel(complexity),
                         warnings |-> WarningsOf(syntax_issues)])
             walked(nodes, syntax_issues) ==
                 report(nodes, 1 + ComplexityOver(nodes, 1, Len(nodes)),
                        syntax_issues)
             handled(e, clause) ==
                 CASE clause = 1 -> Return(ParseFailure("Invalid Python syntax", e))
                   [] clause = 2 -> Return(ParseFailure("Indentation error", e))
                   [] clause = 3 -> Return([error |-> "Value error",
                                            details |-> ExcStr(e)])
                   [] clause = 4 -> Return(AnalysisFailed("Analysis failed", e))
                   [] OTHER -> Raise(e)
             analysed(parsed, syntax_issues) ==
                 IF parsed.ok THEN walked(AstWalk(parsed.tree), syntax_issues)
                 ELSE handled(parsed.exc,
                              FirstHandler(ComplexityHandlers, parsed.exc, 1))
         IN  analysed(AstParse(code.v, nullAs),
                      LeadingZeroIssues(code.v)
                      \o MixedTabIssuesFrom(SplitLines(code.v), 1))

(***************************************************************************)
(* Numbers: floats as decimals, round()                                    *)
(***************************************************************************)

\* A float with at most `digits` decimals: units / 10^digits.
PyFloat(units, digits) == [t |-> "float", units |-> units, digits |-> digits]

Pow10(digits) ==
    CASE digits = 0 -> 1 [] digits = 1 -> 10 [] digits = 2 -> 100 [] OTHER -> 1000

\* round(num / den, digits) for num >= 0 and den > 0, computed on the exact
\* quotient: the nearest multiple of 10^-digits, the even one of two that
\* are equally near.
Round(num, den, digits) ==
    LET scaled == num * Pow10(digits)
        q == scaled \div den
        r == scaled % den
    IN  PyFloat(IF 2 * r > den \/ (2 * r = den /\ q % 2 = 1) THEN q + 1 ELSE q,
                digits)

(***************************************************************************)
(* analyze_code_style                                                      *)
(***************************************************************************)

\* The numbers of the lines, from 1: what enumerate(lines) counts, plus one.
LineNumbers(lines) ==
    [i \in 1..Len(lines) |-> i]

\* The record of the except clause of an analyzer that reports its failure
\* under "error" only.
FailedWith(prefix, e) ==
    [error |-> prefix \o ExcStr(e)]

\* The issues with an entry for every long line instead of one for all.
StyleIssuesPerLine(lines) ==
    LET long_lines == SelectSeq(LineNumbers(lines), LAMBDA i : Len(lines[i]) > 79)
        trailing_whitespace ==
            SelectSeq(LineNumbers(lines), LAMBDA i : RStrip(lines[i]) # lines[i])
        has_tabs == \E i \in 1..Len(lines) : Contains(lines[i], "\t")
        has_spaces == \E i \in 1..Len(lines) : StartsWith(lines[i], " ")
    IN  [k \in 1..Len(long_lines) |->
            "Long lines found at: " \o ReprIntList(<< long_lines[k] >>)]
        \o (IF trailing_whitespace # << >>
            THEN << "Trailing whitespace at lines: "
                    \o ReprIntList(trailing_whitespace) >>
            ELSE << >>)
        \o (IF has_tabs /\ has_spaces
            THEN << "Mixed tabs and spaces detected" >>
            ELSE << >>)

StyleIssues(lines) ==
    LET long_lines == SelectSeq(LineNumbers(lines), LAMBDA i : Len(lines[i]) > 79)
        trailing_whitespace ==
            SelectSeq(LineNumbers(lines), LAMBDA i : RStrip(lines[i]) # lines[i])
        has_tabs == \E i \in 1..Len(lines) : Contains(lines[i], "\t")
        has_spaces == \E i \in 1..Len(lines) : StartsWith(lines[i], " ")
    IN  (IF long_lines # << >>
         THEN << "Long lines found at: " \o ReprIntList(long_lines) >>
         ELSE << >>)
        \o (IF trailing_whitespace # << >>
            THEN << "Trailing whitespace at lines: "
                    \o ReprIntList(trailing_whitespace) >>
            ELSE << >>)
        \o (IF has_tabs /\ has_spaces
            THEN << "Mixed tabs and spaces detected" >>
            ELSE << >>)

\* The length of the argument is logged before the try statement is
\* entered: what len() raises leaves the analyzer.
analyze_code_style(code) ==
    IF ~HasLen(code) THEN Raise(LenError(code))
    ELSE IF ~IsStr(code)
         THEN Return(FailedWith("Style analysis failed: ", SplitError(code)))
    ELSE LET lines == SplitLines(code.v)
             style_issues == StyleIssues(lines)
             blank_lines ==
                 Cardinality({i \in 1..Len(lines) : Strip(lines[i]) = ""})
             score == 100 - Len(style_issues) * 10
         IN  Return([total_lines |-> Len(lines),
                     blank_lines |-> blank_lines,
                     blank_line_ratio |-> Round(blank_lines, Len(lines), 3),
                     style_issues |-> style_issues,
                     style_score |-> IF score > 0 THEN score ELSE 0])

(***************************************************************************)
(* calculate_code_duplication                                              *)
(***************************************************************************)

\* Counter(lines): the count of a line
LineCount(lines, line) ==
    Cardinality({i \in 1..Len(lines) : lines[i] = line})

\* The keys of duplicate_lines, in the order a dict keeps: the lines that
\* occur more than once and are not blank, each at its first occurrence.
DuplicateLines(lines) ==
    LET keep(i) == /\ \A j \in 1..(i - 1) : lines[j] # lines[i]
                   /\ LineCount(lines, lines[i]) > 1
                   /\ Strip(lines[i]) # ""
        at == SelectSeq(LineNumbers(lines), keep)
    IN  [k \in 1..Len(at) |-> lines[at[k]]]

\* One block for each run of 3 or more equal lines that are not blank.
ConsecutiveDuplicatesApart(lines) ==
    {i \in 1..(Len(lines) - 2) :
        /\ lines[i] = lines[i + 1]
        /\ lines[i] = lines[i + 2]
        /\ Strip(lines[i]) # ""
        /\ (i = 1 \/ lines[i - 1] # lines[i])}

\* The blocks of min_block_size = 3 equal lines that are not blank.
ConsecutiveDuplicates(lines) ==
    {i \in 1..(Len(lines) - 2) :
        /\ lines[i] = lines[i + 1]
        /\ lines[i] = lines[i + 2]
        /\ Strip(lines[i]) # ""}

\* The levels with marks that count for the level above them.
LevelOfAtLeast(num, den, marks) ==
    IF num >= marks[1] * den THEN "excellent"
    ELSE IF num >= marks[2] * den THEN "good"
    ELSE IF num >= marks[3] * den THEN "fair"
    ELSE "poor"

\* "excellent" above the first mark, "good" above the second, "fair" above
\* the third, else "poor"; the score is num / den.
LevelOf(num, den, marks) ==
    IF num > marks[1] * den THEN "excellent"
    ELSE IF num > marks[2] * den THEN "good"
    ELSE IF num > marks[3] * den THEN "fair"
    ELSE "poor"

\* What the analyzer makes of lines = code.split("\n").
DuplicationReport(lines) ==
    LET duplicate_lines == DuplicateLines(lines)
        total_lines == Len(lines)
        duplicate_line_count ==
            Cardinality({i \in 1..Len(lines) :
                            /\ Strip(lines[i]) # ""
                            /\ \E j \in 1..(i - 1) : lines[j] = lines[i]})
        \* duplication_score = 100 - duplication_percentage * 2
        \*                   = score / total_lines
        score == 100 * total_lines - 200 * duplicate_line_count
    IN  Return([total_lines |-> total_lines,
                duplicate_lines |-> Len(duplicate_lines),
                duplicate_line_count |-> duplicate_line_count,
                duplication_percentage |->
                    Round(100 * duplicate_line_count, total_lines, 2),
                consecutive_duplicate_blocks |->
                    Cardinality(ConsecutiveDuplicates(lines)),
                \* max(0, x) keeps its first argument, the int 0, unless
                \* x is greater
                duplication_score |->
                    IF score <= 0 THEN PyInt(0)
                    ELSE Round(score, total_lines, 1),
                duplication_level |->
                    LevelOf(score, total_lines, << 90, 75, 50 >>),
                most_duplicated_lines |->
                    SubSeq(duplicate_lines, 1,
                           IF Len(duplicate_lines) < 5
                           THEN Len(duplicate_lines) ELSE 5)])

calculate_code_duplication(code) ==
    IF ~HasLen(code) THEN Raise(LenError(code))
    ELSE IF ~IsStr(code)
         THEN Return(FailedWith("Duplication analysis failed: ", SplitError(code)))
    ELSE DuplicationReport(SplitLines(code.v))

(***************************************************************************)
(* analyze_documentation_quality                                           *)
(***************************************************************************)

\* One pass of the loop over the lines: what the line with the text
\* stripped is appended to ("docstring", "comment" or "" for neither) and
\* the state the pass leaves; docstring_delimiter is "" for None.
\* DocScan is the loop that tells docstring lines from comment lines:
\* the numbers of the lines it appends to docstrings and those it appends
\* to inline_comments, from line i on, entered in the state in_docstring,
\* docstring_delimiter ("" for None).
DocLine(stripped, in_docstring, docstring_delimiter) ==
    LET double == Contains(stripped, "\"\"\"")
        quoted == double \/ Contains(stripped, "'''")
        opens == quoted /\ ~in_docstring
        closes == /\ quoted /\ in_docstring
                  /\ docstring_delimiter # ""
                  /\ Contains(stripped, docstring_delimiter)
    IN  [here |-> IF opens \/ (~quoted /\ in_docstring) THEN "docstring"
                  ELSE IF ~quoted /\ StartsWith(stripped, "#") THEN "comment"
                  ELSE "",
         in_docstring |-> IF opens THEN TRUE
                          ELSE IF closes THEN FALSE ELSE in_docstring,
         docstring_delimiter |->
             IF opens THEN (IF double THEN "\"\"\"" ELSE "'''")
             ELSE IF closes THEN "" ELSE docstring_delimiter]

RECURSIVE DocScan(_, _, _, _)
DocScan(lines, i, in_docstring, docstring_delimiter) ==
    IF i > Len(lines) THEN [docstrings |-> << >>, inline_comments |-> << >>]
    ELSE LET line == DocLine(Strip(lines[i]), in_docstring, docstring_delimiter)
             joined(rest) ==
                 [docstrings |->
                      (IF line.here = "docstring" THEN << i >> ELSE << >>)
                      \o rest.docstrings,
                  inline_comments |->
                      (IF line.here = "comment" THEN << i >> ELSE << >>)
                      \o rest.inline_comments]
         IN  joined(DocScan(lines, i + 1, line.in_docstring,
                            line.docstring_delimiter))

\* The node has a body, with or without a docstring.
HasBody(node) ==
    Field(node, "body") # << >>

\* ast.get_docstring(node) is a non-empty text: the first statement of the
\* body is an expression statement that is a string literal, and cleaning
\* the literal's value leaves something of it.
HasDocstring(node) ==
    LET body == Field(node, "body")
        value == Field(body[1], "value")
    IN  /\ body # << >>
        /\ body[1].type = "Expr"
        /\ value[1].type = "Constant"
        /\ IsString(value[1].val) \/ IsDocString(value[1].val)
        /\ Strip(StringValue(value[1].val)) # ""

\* The nodes of the walk that are of a class in types.
NodesOfType(nodes, types) ==
    SelectSeq(nodes, LAMBDA n : n.type \in types)

\* The parse of the documentation analyzer has an except clause of its own,
\* for SyntaxError only, that puts zero counts in place of the tree's and
\* goes on; any other exception reaches the clause of the outer try.
DocumentationReport(lines, scan, parsed, nodes) ==
    LET functions == NodesOfType(nodes, {"FunctionDef"})
        classes == NodesOfType(nodes, {"ClassDef"})
        documented_functions == Len(SelectSeq(functions, HasDocstring))
        documented_classes == Len(SelectSeq(classes, HasDocstring))
        defs == Len(functions) + Len(classes)
        documented == documented_functions + documented_classes
        total_lines == Len(lines)
        comment_lines == Len(scan.inline_comments) + Len(scan.docstrings)
        \* doc_coverage = documented / defs * 100, 0.0 without defs;
        \* doc_coverage + comment_ratio * 100 = score / den
        den == total_lines * (IF defs > 0 THEN defs ELSE 1)
        score == 100 * (IF defs > 0 THEN documented * total_lines ELSE 0)
                 + 100 * comment_lines * (IF defs > 0 THEN defs ELSE 1)
    IN  IF ~parsed.ok /\ FirstHandler(<< "SyntaxError" >>, parsed.exc, 1) = 0
        THEN Return(FailedWith("Documentation analysis failed: ", parsed.exc))
        ELSE Return([total_lines |-> total_lines,
                     comment_lines |-> comment_lines,
                     comment_ratio |-> Round(comment_lines, total_lines, 3),
                     function_count |-> Len(functions),
                     documented_functions |-> documented_functions,
                     class_count |-> Len(classes),
                     documented_classes |-> documented_classes,
                     documentation_coverage |->
                         Round(100 * documented, IF defs > 0 THEN defs ELSE 1, 1),
                     documentation_score |->
                         IF score >= 100 * den THEN PyInt(100)
                         ELSE Round(score, den, 1),
                     doc_quality_level |->
                         LevelOf(score, den, << 80, 60, 40 >>)])

\* The report from the scan of the lines and the parse of the text.
DocumentationOutcome(lines, scan, parsed) ==
    DocumentationReport(lines, scan, parsed,
                        IF parsed.ok THEN AstWalk(parsed.tree) ELSE << >>)

analyze_documentation_quality(code, nullAs) ==
    IF ~HasLen(code) THEN Raise(LenError(code))
    ELSE IF ~IsStr(code)
         THEN Return(FailedWith("Documentation analysis failed: ",
                                SplitError(code)))
    ELSE DocumentationOutcome(SplitLines(code.v),
                              DocScan(SplitLines(code.v), 1, FALSE, ""),
                              AstParse(code.v, nullAs))

(***************************************************************************)
(* What the coverage, naming, maintainability and error-handling analyzers  *)
(* have in common                                                           *)
(***************************************************************************)

\* The pre-scan for unmatched quotes: a line with an odd count of either
\* quote character.
UnmatchedQuoteIssues(lines) ==
    LET odd == SelectSeq(LineNumbers(lines),
                         LAMBDA i : \/ CountChar(lines[i], "'") % 2 # 0
                                    \/ CountChar(lines[i], "\"") % 2 # 0)
    IN  [k \in 1..Len(odd) |->
            "Potential unmatched quotes at line " \o ToString(odd[k])]

\* syntax_issues at the end of the pre-scan
SyntaxIssues(code) ==
    LeadingZeroIssues(code) \o UnmatchedQuoteIssues(SplitLines(code))

\* The except clauses of these analyzers, in the order they are written.
TreeHandlers ==
    << "SyntaxError", "IndentationError", "Exception" >>

\* What the except clauses make of exception e; category is the "error" of
\* the last clause.
HandleError(category, e) ==
    LET clause == FirstHandler(TreeHandlers, e, 1)
    IN  CASE clause = 1 -> Return(ParseFailure("Invalid Python syntax", e))
          [] clause = 2 -> Return(ParseFailure("Indentation error", e))
          [] clause = 3 -> Return(AnalysisFailed(category, e))
          [] OTHER -> Raise(e)

Max(a, b) == IF a >= b THEN a ELSE b

(***************************************************************************)
(* measure_code_coverage_metrics                                           *)
(***************************************************************************)

\* The score with the first penalty that applies only.
TestabilityScoreFirstPenalty(statements, branch_complexity) ==
    IF statements.if > 10 THEN 80
    ELSE IF statements.try > 5 THEN 85
    ELSE IF branch_complexity > 20 THEN 75
    ELSE 100

\* testability_score: 100 less a penalty for each mark that is passed.
TestabilityScore(statements, branch_complexity) ==
    100 - (IF statements.if > 10 THEN 20 ELSE 0)
        - (IF statements.try > 5 THEN 15 ELSE 0)
        - (IF branch_complexity > 20 THEN 25 ELSE 0)

measure_code_coverage_metrics(code, nullAs) ==
    IF ~IsStr(code) THEN Return(InvalidInputType)
    ELSE IF Strip(code.v) = "" THEN Return(EmptyInput)
    ELSE LET report(parsed, nodes, syntax_issues) ==
                 LET statements == [if |-> CountNodes(nodes, {"If"}),
                                    for |-> CountNodes(nodes, {"For"}),
                                    while |-> CountNodes(nodes, {"While"}),
                                    try |-> CountNodes(nodes, {"Try"}),
                                    except |-> CountNodes(nodes, {"ExceptHandler"}),
                                    with |-> CountNodes(nodes, {"With"}),
                                    return |-> CountNodes(nodes, {"Return"}),
                                    raise |-> CountNodes(nodes, {"Raise"}),
                                    assert |-> CountNodes(nodes, {"Assert"})]
                     branch_complexity ==
                         statements.if + statements.for + statements.while
                     testability_score ==
                         TestabilityScore(statements, branch_complexity)
                 IN  IF ~parsed.ok
                     THEN HandleError("Coverage analysis failed", parsed.exc)
                     ELSE Return([branch_complexity |-> branch_complexity,
                                  conditional_statements |-> statements.if,
                                  loop_statements |-> statements.for + statements.while,
                                  exception_handling |-> statements.try + statements.except,
                                  testability_score |-> Max(0, testability_score),
                                  coverage_risk |->
                                      IF branch_complexity > 15 THEN "high"
                                      ELSE IF branch_complexity > 8 THEN "medium"
                                      ELSE "low",
                                  warnings |-> WarningsOf(syntax_issues)])
             walked(parsed, syntax_issues) ==
                 report(parsed, AstWalk(parsed.tree), syntax_issues)
         IN  walked(AstParse(code.v, nullAs), SyntaxIssues(code.v))

(***************************************************************************)
(* analyze_error_handling                                                  *)
(***************************************************************************)

analyze_error_handling(code, nullAs) ==
    IF ~IsStr(code) THEN Return(InvalidInputType)
    ELSE IF Strip(code.v) = "" THEN Return(EmptyInput)
    ELSE LET report(parsed, nodes, syntax_issues) ==
                 LET try_blocks == CountNodes(nodes, {"Try"})
                     handlers == NodesOfType(nodes, {"ExceptHandler"})
                     except_blocks == Len(handlers)
                     raise_statements == CountNodes(nodes, {"Raise"})
                     assert_statements == CountNodes(nodes, {"Assert"})
                     bare_excepts ==
                         Len(SelectSeq(handlers, LAMBDA n : Field(n, "type") = << >>))
                     specific_exceptions == except_blocks - bare_excepts
                     error_handling_score ==
                         100 - bare_excepts * 20
                             - (IF try_blocks = 0 /\ raise_statements > 0 THEN 30 ELSE 0)
                             - (IF assert_statements > 5 THEN 15 ELSE 0)
                 IN  IF ~parsed.ok
                     THEN HandleError("Error handling analysis failed", parsed.exc)
                     ELSE Return([try_blocks |-> try_blocks,
                                  except_blocks |-> except_blocks,
                                  raise_statements |-> raise_statements,
                                  assert_statements |-> assert_statements,
                                  specific_exceptions |-> specific_exceptions,
                                  bare_excepts |-> bare_excepts,
                                  proper_error_handling |->
                                      IF except_blocks > 0
                                      THEN specific_exceptions > bare_excepts
                                      ELSE TRUE,
                                  error_handling_score |-> Max(0, error_handling_score),
                                  robustness_level |->
                                      LevelOf(error_handling_score, 1, << 85, 70, 50 >>),
                                  warnings |-> WarningsOf(syntax_issues)])
             walked(parsed, syntax_issues) ==
                 report(parsed, AstWalk(parsed.tree), syntax_issues)
         IN  walked(AstParse(code.v, nullAs), SyntaxIssues(code.v))

(***************************************************************************)
(* analyze_naming_conventions                                              *)
(***************************************************************************)

\* names: the identifier of every Name, FunctionDef, ClassDef and arg node,
\* in the order of the walk.
NamesOf(nodes) ==
    LET named == NodesOfType(nodes, {"Name", "FunctionDef", "ClassDef", "arg"})
    IN  [k \in 1..Len(named) |-> named[k].val]

SnakeCaseRe == ReCompile("^[a-z_][a-z0-9_]*$")
CapWordsRe == ReCompile("^[A-Z][a-zA-Z0-9]*$")

\* The chain without the test for a leading underscore.
NameIssueUnderscoreGood(name) ==
    IF Len(name) < 2 THEN "Too short name: " \o name
    ELSE IF Len(name) > 30 THEN "Too long name: " \o name
    ELSE IF ReMatch(SnakeCaseRe, name, FlagsNone) THEN ""
    ELSE IF ReMatch(CapWordsRe, name, FlagsNone) THEN ""
    ELSE "Poor naming convention: " \o name

\* The if / elif chain that classifies a name: "" for a good name, else
\* the issue it appends.
NameIssue(name) ==
    IF Len(name) < 2 THEN "Too short name: " \o name
    ELSE IF Len(name) > 30 THEN "Too long name: " \o name
    ELSE IF ReMatch(SnakeCaseRe, name, FlagsNone) /\ ~StartsWith(name, "_")
         THEN ""
    ELSE IF ReMatch(CapWordsRe, name, FlagsNone) THEN ""
    ELSE "Poor naming convention: " \o name

anti_patterns == << "l", "O", "I", "a", "b", "x", "y", "z" >>

\* Whether names[k] is the first occurrence of its name.
FirstOccurrence(names, k) ==
    \A j \in 1..(k - 1) : names[j] # names[k]

\* The issues with one "single letter" entry for a name, however often it
\* occurs.
NamingIssuesOncePerName(names) ==
    LET single(found) ==
            [k \in 1..Len(found) |->
                "Single letter variable: " \o names[found[k]]]
    IN  SelectSeq([k \in 1..Len(names) |-> NameIssue(names[k])],
                  LAMBDA issue : issue # "")
        \o single(SelectSeq([k \in 1..Len(names) |-> k],
                            LAMBDA k : /\ \E n \in 1..Len(anti_patterns) :
                                             names[k] = anti_patterns[n]
                                       /\ Len(names[k]) = 1
                                       /\ FirstOccurrence(names, k)))

\* issues: what the first loop over the names appends, then what the
\* second loop appends.
NamingIssues(names) ==
    LET single(found) ==
            [k \in 1..Len(found) |-> "Single letter variable: " \o found[k]]
    IN  SelectSeq([k \in 1..Len(names) |-> NameIssue(names[k])],
                  LAMBDA issue : issue # "")
        \o single(SelectSeq(names,
                            LAMBDA name : /\ \E k \in 1..Len(anti_patterns) :
                                                name = anti_patterns[k]
                                          /\ Len(name) = 1))

\* good_names: the names that the if / elif chain finds good.
GoodNames(names) ==
    Len(SelectSeq(names, LAMBDA name : NameIssue(name) = ""))

\* The result of the naming analyzer for the outcome of the parse.
NamingReport(parsed, names, issues, good_names, syntax_issues) ==
    IF ~parsed.ok
    THEN HandleError("Naming analysis failed", parsed.exc)
    ELSE Return([total_identifiers |-> Len(names),
                 good_names |-> good_names,
                 naming_issues |-> issues,
                 naming_score |-> Max(0, 100 - Len(issues) * 5),
                 convention_compliance |->
                     IF names # << >>
                     THEN Round(100 * good_names, Len(names), 1)
                     ELSE PyInt(100),
                 warnings |-> WarningsOf(syntax_issues)])

\* ... for the names of the tree.
NamingOf(parsed, names, syntax_issues) ==
    NamingReport(parsed, names, NamingIssues(names), GoodNames(names),
                 syntax_issues)

\* ... for the outcome of the parse: the tree is walked once it stands.
NamingWalk(parsed, syntax_issues) ==
    NamingOf(parsed, NamesOf(AstWalk(parsed.tree)), syntax_issues)

analyze_naming_conventions(code, nullAs) ==
    IF ~IsStr(code) THEN Return(InvalidInputType)
    ELSE IF Strip(code.v) = "" THEN Return(EmptyInput)
    ELSE NamingWalk(AstParse(code.v, nullAs), SyntaxIssues(code.v))

(***************************************************************************)
(* calculate_maintainability_index                                         *)
(***************************************************************************)

\* The logarithm to the base 2, rounded down, that bit_length stands in for.
RECURSIVE FloorLog2(_)
FloorLog2(n) ==
    IF n <= 1 THEN 0 ELSE 1 + FloorLog2(n \div 2)

\* int.bit_length()
RECURSIVE BitLength(_)
BitLength(n) ==
    IF n = 0 THEN 0 ELSE 1 + BitLength(n \div 2)

\* sum(len(node.body) for node in functions)
RECURSIVE BodyLengths(_)
BodyLengths(functions) ==
    IF functions = << >> THEN 0
    ELSE Len(Field(Head(functions), "body")) + BodyLengths(Tail(functions))

\* str(node.value) of a Constant: the digits of a number, the text of a
\* string.
ConstantStr(node) ==
    IF IsNumber(node.val) THEN node.val ELSE StringValue(node.val)

\* The Halstead counts of the walk.
Halstead(nodes) ==
    LET ops == NodesOfType(nodes, {"BinOp", "UnaryOp", "Compare"})
        opds == NodesOfType(nodes, {"Name", "Constant"})
        operand(n) == IF n.type = "Name" THEN n.val ELSE ConstantStr(n)
    IN  [unique_operators |-> Cardinality({ops[k].type : k \in 1..Len(ops)}),
         unique_operands |-> Cardinality({operand(opds[k]) : k \in 1..Len(opds)}),
         total_operators |-> Len(ops),
         total_operands |-> Len(opds)]

calculate_maintainability_index(code, nullAs) ==
    IF ~IsStr(code) THEN Return(InvalidInputType)
    ELSE IF Strip(code.v) = "" THEN Return(EmptyInput)
    ELSE LET report(parsed, nodes, syntax_issues) ==
                 LET lines == SplitLines(code.v)
                     non_empty_lines ==
                         Cardinality({i \in 1..Len(lines) : Strip(lines[i]) # ""})
                     comment_lines ==
                         Cardinality({i \in 1..Len(lines) : StartsWith(Strip(lines[i]), "#")})
                     functions == NodesOfType(nodes, {"FunctionDef"})
                     h == Halstead(nodes)
                     volume == (h.total_operators + h.total_operands)
                               * BitLength(h.unique_operators + h.unique_operands)
                     \* avg_function_length = bodies / count,
                     \* difficulty = unique_operators * total_operands / (2 * operands),
                     \* 171 - 5.2 * volume.bit_length() - 0.23 * difficulty
                     \*     - 16.2 * avg_function_length = index / den
                     bodies == BodyLengths(functions)
                     count == Max(1, Len(functions))
                     operands == Max(1, h.unique_operands)
                     den == 200 * operands * count
                     index == 171 * den
                              - 1040 * BitLength(volume) * operands * count
                              - 23 * h.unique_operators * h.total_operands * count
                              - 3240 * bodies * operands
                 IN  IF ~parsed.ok
                     THEN HandleError("Maintainability analysis failed", parsed.exc)
                     ELSE Return([lines_of_code |-> Len(lines),
                                  non_empty_lines |-> non_empty_lines,
                                  comment_ratio |-> Round(comment_lines, non_empty_lines, 3),
                                  function_count |-> Len(functions),
                                  avg_function_length |->
                                      IF functions # << >> THEN Round(bodies, count, 1)
                                      ELSE PyInt(0),
                                  maintainability_index |->
                                      IF index <= 0 THEN PyInt(0) ELSE Round(index, den, 1),
                                  maintainability_level |->
                                      LevelOf(index, den, << 85, 65, 25 >>),
                                  warnings |-> WarningsOf(syntax_issues)])
             walked(parsed, syntax_issues) ==
                 report(parsed, AstWalk(parsed.tree), syntax_issues)
         IN  walked(AstParse(code.v, nullAs), SyntaxIssues(code.v))

(***************************************************************************)
(* The security scanners: tables of patterns applied to the text           *)
(***************************************************************************)

\* The patterns of a table, compiled.
Compiled(table) ==
    << >> \o [k \in 1..Len(table) |-> ReCompile(table[k][1])]

\* code[:start].count("\n") + 1
LineOf(code, start) ==
    CountChar(SubSeq(code, 1, start), "\n") + 1

\* The snippet of a finding: the matched text, cut after 100 characters.
Snippet(text) ==
    IF Len(text) > 100 THEN SubSeq(text, 1, 100) \o "..." ELSE text

\* The snippet of a finding of the secrets scanner: the matched text with
\* every quoted literal in it replaced.
MaskRe == ReCompile("[\"\\'][^\"\\']+[\"\\']")

Masked(text) ==
    ReSub(MaskRe, "\"***MASKED***\"", text)

\* The finding appended for the match m of a pattern with the given
\* description.  (The variant before it gives every finding the severity
\* "low", the third value that the docstrings name.)
FindingOfLowSeverity(description, code, type, severity, masked, m) ==
    [type |-> type,
     description |-> description,
     line |-> LineOf(code, m.start),
     code |-> IF masked
              THEN Masked(Group0(code, m))
              ELSE Snippet(Group0(code, m)),
     severity |-> "low"]

Finding(description, code, type, severity, masked, m) ==
    [type |-> type,
     description |-> description,
     line |-> LineOf(code, m.start),
     code |-> IF masked
              THEN Masked(Group0(code, m))
              ELSE Snippet(Group0(code, m)),
     severity |-> severity]

\* ... for each match of the pattern, in the order of the matches.
Findings(description, code, type, severity, masked, ms) ==
    [i \in 1..Len(ms) |-> Finding(description, code, type, severity, masked, ms[i])]

\* The loops of a scanner with the patterns of the table taken from the
\* last to the first.
ScanLastPatternFirst(table, res, code, type, severity, masked) ==
    Flatten([k \in 1..Len(table) |->
                Findings(table[Len(table) + 1 - k][2], code, type, severity,
                         masked,
                         ReFindIter(res[Len(table) + 1 - k], code, FlagsIM))],
            1, Len(table))

\* The two nested loops of a scanner: for each pattern of the table, in the
\* order of the table, a finding for each match of re.finditer(pattern,
\* code, re.IGNORECASE | re.MULTILINE), in the order of the matches.  The
\* secrets scanner masks the matched text (masked), the others cut it.
Scan(table, res, code, type, severity, masked) ==
    Flatten([k \in 1..Len(table) |->
                Findings(table[k][2], code, type, severity, masked,
                         ReFindIter(res[k], code, FlagsIM))],
            1, Len(table))

\* (A variant of the report below, in which as many findings as the
\* threshold are "high" already.)
ScanReportFromThreshold(vulnerabilities, threshold, recommendations) ==
    [vulnerabilities |-> vulnerabilities,
     risk_level |-> IF vulnerabilities = << >> THEN "low"
                    ELSE IF Len(vulnerabilities) >= threshold THEN "high"
                    ELSE "medium",
     vulnerability_count |-> Len(vulnerabilities),
     recommendations |-> recommendations]

\* The report of a scanner: risk_level is "high" with more findings than
\* the scanner's threshold, "medium" with fewer, "low" with none.
ScanReport(vulnerabilities, threshold, recommendations) ==
    [vulnerabilities |-> vulnerabilities,
     risk_level |-> IF vulnerabilities = << >> THEN "low"
                    ELSE IF Len(vulnerabilities) > threshold THEN "high"
                    ELSE "medium",
     vulnerability_count |-> Len(vulnerabilities),
     recommendations |-> recommendations]

(***************************************************************************)
(* analyze_sql_injection                                                   *)
(***************************************************************************)

sql_injection_patterns ==
    << << "f\".*SELECT.*{.*}",
          "F-string SQL query with variable interpolation" >>,
       << "f\".*INSERT.*{.*}",
          "F-string SQL INSERT with variable interpolation" >>,
       << "f\".*UPDATE.*{.*}",
          "F-string SQL UPDATE with variable interpolation" >>,
       << "f\".*DELETE.*{.*}",
          "F-string SQL DELETE with variable interpolation" >>,
       << "f\".*DROP.*{.*}", "F-string SQL DROP with variable interpolation" >>,
       << "f\".*CREATE.*{.*}",
          "F-string SQL CREATE with variable interpolation" >>,
       << "[\"\\']\\s*SELECT.*\\s*\\+\\s*",
          "SQL query with string concatenation" >>,
       << "[\"\\']\\s*INSERT.*\\s*\\+\\s*",
          "SQL INSERT with string concatenation" >>,
       << "[\"\\']\\s*UPDATE.*\\s*\\+\\s*",
          "SQL UPDATE with string concatenation" >>,
       << "[\"\\']\\s*DELETE.*\\s*\\+\\s*",
          "SQL DELETE with string concatenation" >>,
       << "[\"\\']\\s*SELECT.*\\s*\\.format\\(",
          "SQL query with .format() method" >>,
       << "[\"\\']\\s*INSERT.*\\s*\\.format\\(",
          "SQL INSERT with .format() method" >>,
       << "[\"\\']\\s*UPDATE.*\\s*\\.format\\(",
          "SQL UPDATE with .format() method" >>,
       << "[\"\\']\\s*SELECT.*\\s*%\\s*", "SQL query with % formatting" >>,
       << "[\"\\']\\s*INSERT.*\\s*%\\s*", "SQL INSERT with % formatting" >>,
       << "[\"\\']\\s*UPDATE.*\\s*%\\s*", "SQL UPDATE with % formatting" >> >>

sql_injection_recommendations ==
    << "Use parameterized queries with placeholders",
       "Use ORM libraries like SQLAlchemy",
       "Validate and sanitize all user inputs",
       "Use database connection libraries with built-in protection" >>

SqlInjectionRes == Compiled(sql_injection_patterns)

\* The length of the argument is logged first; then re.finditer refuses an
\* argument that is not a str.
analyze_sql_injection(code) ==
    IF ~HasLen(code) THEN Raise(LenError(code))
    ELSE IF ~IsStr(code) THEN Raise(PatternError(code))
    ELSE Return(ScanReport(Scan(sql_injection_patterns, SqlInjectionRes, code.v,
                                "SQL Injection", "high", FALSE),
                           3, sql_injection_recommendations))

(***************************************************************************)
(* analyze_command_injection                                               *)
(***************************************************************************)

command_injection_patterns ==
    << << "os\\.system\\s*\\(\\s*[^)]*\\+",
          "os.system with string concatenation" >>,
       << "os\\.system\\s*\\(\\s*f[\"\\']", "os.system with f-string" >>,
       << "os\\.system\\s*\\(\\s*[^)]*\\.format\\(",
          "os.system with .format()" >>,
       << "subprocess\\.(?:call|run|Popen)\\s*\\([^)]*shell\\s*=\\s*True",
          "subprocess with shell=True" >>,
       << "subprocess\\.(?:call|run|Popen)\\s*\\([^)]*\\+",
          "subprocess with string concatenation" >>,
       << "eval\\s*\\(", "Use of eval() function" >>,
       << "exec\\s*\\(", "Use of exec() function" >>,
       << "__import__\\s*\\(\\s*[^)]*\\+",
          "__import__ with string concatenation" >>,
       << "__import__\\s*\\(\\s*f[\"\\']", "__import__ with f-string" >>,
       << "globals\\s*\\(", "Use of globals() function" >>,
       << "locals\\s*\\(", "Use of locals() function" >> >>

command_injection_recommendations ==
    << "Avoid using eval(), exec(), globals(), locals()",
       "Use subprocess with shell=False and proper argument lists",
       "Validate and sanitize all command inputs",
       "Use specific libraries instead of shell commands",
       "Consider using shlex.quote() for shell arguments" >>

CommandInjectionRes == Compiled(command_injection_patterns)

\* The length of the argument is logged first; then re.finditer refuses an
\* argument that is not a str.
analyze_command_injection(code) ==
    IF ~HasLen(code) THEN Raise(LenError(code))
    ELSE IF ~IsStr(code) THEN Raise(PatternError(code))
    ELSE Return(ScanReport(Scan(command_injection_patterns, CommandInjectionRes, code.v,
                                "Command Injection", "high", FALSE),
                           2, command_injection_recommendations))

(***************************************************************************)
(* analyze_hardcoded_secrets                                               *)
(***************************************************************************)

secret_patterns ==
    << << "(?:password|passwd|pwd)\\s*=\\s*[\"\\'][^\"\\']+[\"\\']",
          "Hardcoded password" >>,
       << "(?:api_key|apikey|key)\\s*=\\s*[\"\\'][^\"\\']+[\"\\']",
          "Hardcoded API key" >>,
       << "(?:secret|secret_key)\\s*=\\s*[\"\\'][^\"\\']+[\"\\']",
          "Hardcoded secret" >>,
       << "(?:token|access_token)\\s*=\\s*[\"\\'][^\"\\']+[\"\\']",
          "Hardcoded token" >>,
       << "(?:private_key|privatekey)\\s*=\\s*[\"\\'][^\"\\']+[\"\\']",
          "Hardcoded private key" >>,
       << "(?:database_url|db_url|connection_string)\\s*=\\s*[\"\\'][^\"\\']+[\"\\']",
          "Hardcoded database URL" >>,
       << "[\"\\'](?:sk_|pk_)[a-zA-Z0-9]{20,}[\"\\']",
          "Potential Stripe API key" >>,
       << "[\"\\'](?:AKIA|A3T|AGPA|AIDA|AROA|AIPA|ANPA|ANVA|ASIA)[A-Z0-9]{16}[\"\\']",
          "Potential AWS access key" >>,
       << "[\"\\'][a-zA-Z0-9]{32,}[\"\\']", "Potential hash or token" >>,
       << "[\"\\'](?:mysql|postgresql|mongodb)://[^\"\\']+[\"\\']",
          "Hardcoded database connection string" >>,
       << "(?:email_password|smtp_password)\\s*=\\s*[\"\\'][^\"\\']+[\"\\']",
          "Hardcoded email password" >> >>

hardcoded_secrets_recommendations ==
    << "Use environment variables for sensitive data",
       "Use configuration management tools",
       "Use secret management services",
       "Never commit secrets to version control",
       "Use .env files (not committed) for local development" >>

SecretRes == Compiled(secret_patterns)

\* The length of the argument is logged first; then re.finditer refuses an
\* argument that is not a str.
analyze_hardcoded_secrets(code) ==
    IF ~HasLen(code) THEN Raise(LenError(code))
    ELSE IF ~IsStr(code) THEN Raise(PatternError(code))
    ELSE Return(ScanReport(Scan(secret_patterns, SecretRes, code.v,
                                "Hardcoded Secret", "high", TRUE),
                           2, hardcoded_secrets_recommendations))

(***************************************************************************)
(* analyze_path_traversal                                                  *)
(***************************************************************************)

path_traversal_patterns ==
    << << "open\\s*\\(\\s*[^)]*\\+", "open() with string concatenation" >>,
       << "open\\s*\\(\\s*f[\"\\']", "open() with f-string" >>,
       << "open\\s*\\(\\s*[^)]*\\.format\\(", "open() with .format()" >>,
       << "os\\.path\\.join\\s*\\(\\s*[^)]*\\+",
          "os.path.join with string concatenation" >>,
       << "os\\.path\\.(?:exists|isfile|isdir)\\s*\\(\\s*[^)]*\\+",
          "os.path check with string concatenation" >>,
       << "with\\s+open\\s*\\(\\s*[^)]*\\+\\s*[^)]*\\)",
          "File operation with concatenated path" >>,
       << "[\"\\']\\.\\./", "Relative path with parent directory" >>,
       << "[\"\\']\\.\\.\\\\",
          "Relative path with parent directory (Windows)" >> >>

path_traversal_recommendations ==
    << "Use os.path.abspath() and os.path.realpath() to normalize paths",
       "Validate file paths against allowed directories",
       "Use pathlib.Path for safer path operations",
       "Implement proper input validation and sanitization",
       "Use chroot or jail environments when possible" >>

PathTraversalRes == Compiled(path_traversal_patterns)

\* (A variant of the scanner below, whose findings have the severity
\* "high".)
analyze_path_traversal_high(code) ==
    IF ~IsStr(code) THEN Raise(PatternError(code))
    ELSE Return(ScanReport(Scan(path_traversal_patterns, PathTraversalRes, code.v,
                                "Path Traversal", "high", FALSE),
                           3, path_traversal_recommendations))

\* Nothing is logged: re.finditer is the first to read the argument.
analyze_path_traversal(code) ==
    IF ~IsStr(code) THEN Raise(PatternError(code))
    ELSE Return(ScanReport(Scan(path_traversal_patterns, PathTraversalRes, code.v,
                                "Path Traversal", "medium", FALSE),
                           3, path_traversal_recommendations))

(***************************************************************************)
(* analyze_unsafe_deserialization                                          *)
(***************************************************************************)

deserialization_patterns ==
    << << "pickle\\.loads\\s*\\(", "Use of pickle.loads()" >>,
       << "pickle\\.load\\s*\\(", "Use of pickle.load()" >>,
       << "yaml\\.load\\s*\\(", "Use of yaml.load() without safe loader" >>,
       << "yaml\\.load\\s*\\([^)]*Loader\\s*=\\s*yaml\\.Loader",
          "Use of yaml.load() with unsafe Loader" >>,
       << "json\\.loads\\s*\\([^)]*object_hook",
          "json.loads with custom object_hook" >>,
       << "marshal\\.loads\\s*\\(", "Use of marshal.loads()" >>,
       << "marshal\\.load\\s*\\(", "Use of marshal.load()" >> >>

unsafe_deserialization_recommendations ==
    << "Avoid using pickle for untrusted data",
       "Use yaml.safe_load() instead of yaml.load()",
       "Validate all deserialized data",
       "Use custom serialization formats for sensitive data",
       "Consider using libraries like pydantic for data validation" >>

DeserializationRes == Compiled(deserialization_patterns)

\* Nothing is logged: re.finditer is the first to read the argument.
analyze_unsafe_deserialization(code) ==
    IF ~IsStr(code) THEN Raise(PatternError(code))
    ELSE Return(ScanReport(Scan(deserialization_patterns, DeserializationRes, code.v,
                                "Unsafe Deserialization", "high", FALSE),
                           1, unsafe_deserialization_recommendations))

(***************************************************************************)
(* analyze_xss_vulnerabilities                                             *)
(***************************************************************************)

xss_patterns ==
    << << "return\\s+render_template\\s*\\(\\s*[^)]*\\+",
          "Template rendering with string concatenation" >>,
       << "return\\s+render_template_string\\s*\\(\\s*[^)]*\\+",
          "Template string rendering with concatenation" >>,
       << "return\\s+render\\s*\\(\\s*request\\s*,\\s*[^)]*\\+",
          "Django render with string concatenation" >>,
       << "f[\"\\']<[^>]*>{[^}]*}[^>]*>[\"\\']",
          "F-string HTML with variable interpolation" >>,
       << "[\"\\']<[^>]*>\\s*\\+\\s*[^+]+[\"\\']",
          "HTML with string concatenation" >>,
       << "f[\"\\']<script[^>]*>{[^}]*}[^>]*>[\"\\']",
          "F-string script tag with variable" >>,
       << "[\"\\']<script[^>]*>\\s*\\+\\s*[^+]+[\"\\']",
          "Script tag with string concatenation" >> >>

xss_vulnerabilities_recommendations ==
    << "Use template engines with automatic escaping",
       "Validate and sanitize all user inputs",
       "Use Content Security Policy (CSP) headers",
       "Escape output in templates",
       "Use libraries like bleach for HTML sanitization" >>

XssRes == Compiled(xss_patterns)

\* Nothing is logged: re.finditer is the first to read the argument.
analyze_xss_vulnerabilities(code) ==
    IF ~IsStr(code) THEN Raise(PatternError(code))
    ELSE Return(ScanReport(Scan(xss_patterns, XssRes, code.v,
                                "Cross-Site Scripting (XSS)", "high", FALSE),
                           2, xss_vulnerabilities_recommendations))

(***************************************************************************)
(* analyze_input_validation                                                *)
(***************************************************************************)

validation_patterns ==
    << << "input\\s*\\(\\s*\\)", "Use of input() without validation" >>,
       << "request\\.(?:args|form|json)\\s*\\[[^\\]]+\\]",
          "Direct access to request data" >>,
       << "request\\.(?:args|form|json)\\.get\\s*\\([^)]*\\)",
          "Request data access without validation" >>,
       << "if\\s+len\\s*\\(\\s*[^)]+\\s*\\)\\s*>\\s*0:",
          "Length-only validation" >>,
       << "if\\s+[^)]+\\s*is\\s+not\\s+None:", "None-only validation" >>,
       << "open\\s*\\(\\s*[^)]*\\)",
          "File operation without input validation" >>,
       << "subprocess\\.[a-zA-Z]+\\s*\\(\\s*[^)]*\\)",
          "Subprocess without input validation" >> >>

input_validation_recommendations ==
    << "Implement comprehensive input validation",
       "Use type hints and validation libraries like pydantic",
       "Validate data types, ranges, and formats",
       "Use allowlists instead of blocklists",
       "Implement proper error handling for invalid inputs" >>

ValidationRes == Compiled(validation_patterns)

\* Nothing is logged: re.finditer is the first to read the argument.
analyze_input_validation(code) ==
    IF ~IsStr(code) THEN Raise(PatternError(code))
    ELSE Return(ScanReport(Scan(validation_patterns, ValidationRes, code.v,
                                "Input Validation", "medium", FALSE),
                           5, input_validation_recommendations))

(***************************************************************************)
(* comprehensive_security_analysis                                         *)
(***************************************************************************)

comprehensive_recommendations ==
    << "Address high-severity vulnerabilities first",
       "Implement secure coding practices",
       "Use security-focused libraries and frameworks",
       "Regular security audits and code reviews",
       "Follow OWASP guidelines",
       "Use automated security testing tools" >>

\* The seven scanners run one after the other on the same argument; what
\* the first of them raises leaves the composite scanner.
\* all_vulnerabilities: the seven lists of findings added up, in the order
\* in which the sub-scanners ran.  (The variant before it puts the findings
\* of the first sub-scanner last.)
CombineVulnerabilitiesFirstLast(found) ==
    Flatten(found, 2, 7) \o found[1]

CombineVulnerabilities(found) ==
    found[1] \o found[2] \o found[3] \o found[4] \o found[5] \o found[6]
    \o found[7]

\* overall_risk: the if / elif / else over the two counts.  (The variant
\* before it takes three findings of medium severity for more than three.)
OverallRiskFromThree(high_severity, medium_severity) ==
    IF high_severity > 0 THEN "high"
    ELSE IF medium_severity >= 3 THEN "medium"
    ELSE "low"

OverallRisk(high_severity, medium_severity) ==
    IF high_severity > 0 THEN "high"
    ELSE IF medium_severity > 3 THEN "medium"
    ELSE "low"

\* What the scanner makes of the outcomes of its seven sub-scanner calls.
SecurityReport(results) ==
    LET with(all_vulnerabilities, severity) ==
            Len(SelectSeq(all_vulnerabilities, LAMBDA v : v.severity = severity))
        types(all_vulnerabilities) ==
            {all_vulnerabilities[i].type : i \in 1..Len(all_vulnerabilities)}
        grouped(all_vulnerabilities, vulnerability_types) ==
            [type \in vulnerability_types |->
                SelectSeq(all_vulnerabilities, LAMBDA v : v.type = type)]
        report(found, all_vulnerabilities, high_severity, medium_severity) ==
            Return(
            [overall_risk_level |-> OverallRisk(high_severity, medium_severity),
             security_score |->
                 Max(0, 100 - (high_severity * 20) - (medium_severity * 10)),
             total_vulnerabilities |-> Len(all_vulnerabilities),
             high_severity_count |-> high_severity,
             medium_severity_count |-> medium_severity,
             vulnerability_types |->
                 grouped(all_vulnerabilities, types(all_vulnerabilities)),
             all_vulnerabilities |-> all_vulnerabilities,
             summary |-> [sql_injection |-> Len(found[1]),
                          command_injection |-> Len(found[2]),
                          hardcoded_secrets |-> Len(found[3]),
                          path_traversal |-> Len(found[4]),
                          unsafe_deserialization |-> Len(found[5]),
                          xss |-> Len(found[6]),
                          input_validation |-> Len(found[7])],
             recommendations |-> comprehensive_recommendations])
        counted(found, all_vulnerabilities) ==
            report(found, all_vulnerabilities,
                   with(all_vulnerabilities, "high"),
                   with(all_vulnerabilities, "medium"))
        combined(found) == counted(found, CombineVulnerabilities(found))
        checked(raisedAt) ==
            IF raisedAt # {} THEN results[SetMin(raisedAt)]
            ELSE combined([k \in 1..7 |-> results[k].value.vulnerabilities])
    IN  checked({k \in 1..7 : results[k].raised})

comprehensive_security_analysis(code) ==
    SecurityReport(<< analyze_sql_injection(code),
                      analyze_command_injection(code),
                      analyze_hardcoded_secrets(code),
                      analyze_path_traversal(code),
                      analyze_unsafe_deserialization(code),
                      analyze_xss_vulnerabilities(code),
                      analyze_input_validation(code) >>)

(***************************************************************************)
(* The arguments the analyzers are called with                             *)
(***************************************************************************)

\* The size of the generated sources.
MaxStatements == 2
MaxOperands == 11
MaxBlank == 2

\* Values that are not strings.
NonStrings ==
    {PyNone, PyInt(42), PyBytes("x = 1"), PyList(<< "x = 1" >>)}

\* The strings of at most n whitespace characters.
RECURSIVE BlanksOf(_)
BlanksOf(n) ==
    IF n = 0 THEN {""}
    ELSE BlanksOf(n - 1)
         \cup {b \o c : b \in BlanksOf(n - 1), c \in {" ", "\t", "\n"}}

BlankStrings == BlanksOf(MaxBlank)

\* Statements the generated programs are made of, one of each kind the
\* complexity count tells apart, flat and nested.
Statements ==
    {"x = 1",
     "if a: pass",
     "while a: pass",
     "for i in y: pass",
     "async for i in y: pass",
     "with a: pass",
     "async with a: pass",
     "assert a",
     "raise E",
     "def hello(): return 'world'",
     "x = a and b or c",
     "try:\n    f(x)\nexcept E:\n    pass\nexcept:\n    raise",
     "while a:\n    if b or c:\n        raise E\n    elif d:\n        pass\n    else:\n        return x",
     "class C:\n    def m(self):\n        return a and b and c"}

\* The programs of n statements, a line break after each.
RECURSIVE ProgramsOf(_)
ProgramsOf(n) ==
    IF n = 0 THEN {""}
    ELSE {p \o st \o "\n" : p \in ProgramsOf(n - 1), st \in Statements}

Programs ==
    UNION {ProgramsOf(n) : n \in 1..MaxStatements}

\* a or a or ... or a, n operands
RECURSIVE Chain(_)
Chain(n) ==
    IF n <= 1 THEN "a" ELSE Chain(n - 1) \o " or a"

ChainPrograms ==
    {"if " \o Chain(n) \o ": pass\n" : n \in 1..MaxOperands}

\* Every generated program, as written and without its last line break.
ValidSources ==
    LET all == Programs \cup ChainPrograms
    IN  all \cup {SubSeq(p, 1, Len(p) - 1) : p \in all}

\* Texts the parser rejects: syntax errors, missing and unexpected
\* indentation, inconsistent dedent, tabs against spaces, a null character.
InvalidSources ==
    {"x = (", "if x", "x = 1 +", "def f(:\n    pass\n", "try:\n    pass\n",
     "if x:", "if x:\npass\n", "  x = 1", "x = 1\n  y = 2\n",
     "if x:\n    pass\n  y = 2\n", "if x:\n        pass\n\tpass\n",
     "x = 1" \o NUL, NUL}

\* Texts with something in them for each of the scanners and analyzers that
\* read the text as it is written.
SampleSources ==
    {"password = \"secret123\"",
     "pwd = \"pwd\"",
     "q = \"SELECT a FROM t WHERE id = \" + uid\n",
     "q = \"SELECT a FROM t WHERE id = %s\"\n",
     "eval(x)\nexec(y)\nglobals()\n",
     "x = input()\nf = open(p)\n",
     "p = \"../etc\" + name\n",
     "v = \"<b>\" + name + \"</b>\"\n",
     "def f():\n    \"\"\"doc\"\"\"\n    return 1\n# c\n",
     "x = 1\nx = 1\nx = 1\n\ty = 2 \n",
     "x = 007\ny = 'a\n"}

\* Assignments of a quoted literal to a name, one to a line: the names the
\* secrets scanner looks for and one it does not, values that occur in a
\* name or in the mask and values that do not, either quote character,
\* with and without blanks around the "=".
SecretNames == {"password", "pwd", "api_key", "token", "x"}
SecretValues == {"secret123", "pwd", "token", "a", "MASKED", "***", "s3cr3t"}
QuoteChars == {"\"", "'"}

SecretLines ==
    {name \o eq \o q \o value \o q :
        name \in SecretNames, eq \in {" = ", "="}, q \in QuoteChars,
        value \in SecretValues}

SecretSources ==
    SecretLines \cup {"x = 1\n" \o l \o "\ntoken = 'abc'\n" : l \in SecretLines}

\* The interpreter's class for the error of a text with a null character.
NullErrorClasses == {"SyntaxError", "ValueError"}

(***************************************************************************)
(* The state machine: an argument arrives, one analyzer is applied to it   *)
(***************************************************************************)

\* code, nullAs, called and outcome describe one call on its own;
\* invocations holds the frames of the calls that run at the same time, and
\* logged counts the records the calls have handed to the module's logger.
VARIABLES code, nullAs, called, outcome, invocations, logged

vars == << code, nullAs, called, outcome, invocations, logged >>

\* A call of analyzer fn that ends as value says.
Call(fn, value) ==
    /\ called = ""
    /\ called' = fn
    /\ outcome' = value
    /\ UNCHANGED << code, nullAs, invocations, logged >>

Arrives(values) ==
    /\ code \in values
    /\ nullAs \in NullErrorClasses
    /\ called = ""
    /\ outcome = Return(NoValue)
    /\ invocations = << >>
    /\ logged = 0

CalculateCodeComplexity ==
    Call("calculate_code_complexity", calculate_code_complexity(code, nullAs))

AnalyzeCodeStyle ==
    Call("analyze_code_style", analyze_code_style(code))

MeasureCodeCoverageMetrics ==
    Call("measure_code_coverage_metrics",
         measure_code_coverage_metrics(code, nullAs))

AnalyzeNamingConventions ==
    Call("analyze_naming_conventions", analyze_naming_conventions(code, nullAs))

CalculateMaintainabilityIndex ==
    Call("calculate_maintainability_index",
         calculate_maintainability_index(code, nullAs))

AnalyzeDocumentationQuality ==
    Call("analyze_documentation_quality",
         analyze_documentation_quality(code, nullAs))

CalculateCodeDuplication ==
    Call("calculate_code_duplication", calculate_code_duplication(code))

AnalyzeErrorHandling ==
    Call("analyze_error_handling", analyze_error_handling(code, nullAs))

AnalyzeSqlInjection ==
    Call("analyze_sql_injection", analyze_sql_injection(code))

AnalyzeCommandInjection ==
    Call("analyze_command_injection", analyze_command_injection(code))

AnalyzeHardcodedSecrets ==
    Call("analyze_hardcoded_secrets", analyze_hardcoded_secrets(code))

AnalyzePathTraversal ==
    Call("analyze_path_traversal", analyze_path_traversal(code))

AnalyzeUnsafeDeserialization ==
    Call("analyze_unsafe_deserialization", analyze_unsafe_deserialization(code))

AnalyzeXssVulnerabilities ==
    Call("analyze_xss_vulnerabilities", analyze_xss_vulnerabilities(code))

AnalyzeInputValidation ==
    Call("analyze_input_validation", analyze_input_validation(code))

ComprehensiveSecurityAnalysis ==
    Call("comprehensive_security_analysis", comprehensive_security_analysis(code))

\* Every analyzer on every kind of argument: values that are not strings,
\* blank strings, texts the parser rejects and texts it accepts.
Init ==
    Arrives(NonStrings
            \cup {PyStr(src) : src \in BlankStrings \cup InvalidSources
                                       \cup ProgramsOf(1) \cup SampleSources})

Next ==
    \/ CalculateCodeComplexity
    \/ AnalyzeCodeStyle
    \/ MeasureCodeCoverageMetrics
    \/ AnalyzeNamingConventions
    \/ CalculateMaintainabilityIndex
    \/ AnalyzeDocumentationQuality
    \/ CalculateCodeDuplication
    \/ AnalyzeErrorHandling
    \/ AnalyzeSqlInjection
    \/ AnalyzeCommandInjection
    \/ AnalyzeHardcodedSecrets
    \/ AnalyzePathTraversal
    \/ AnalyzeUnsafeDeserialization
    \/ AnalyzeXssVulnerabilities
    \/ AnalyzeInputValidation
    \/ ComprehensiveSecurityAnalysis

Spec ==
    Init /\ [][Next]_vars

\* The complexity analyzer on the generated programs.  The class of the
\* error for a null character matters for the texts that hold one only.
InitComplexity ==
    /\ Arrives({PyStr(src) : src \in ValidSources \cup InvalidSources})
    /\ (nullAs = "SyntaxError" \/ Contains(code.v, NUL))

NextComplexity ==
    CalculateCodeComplexity

SpecComplexity ==
    InitComplexity /\ [][NextComplexity]_vars

\* The secrets scanner on the generated assignments.
InitSecrets ==
    Arrives({PyStr(src) : src \in SecretSources})

NextSecrets ==
    AnalyzeHardcodedSecrets

SpecSecrets ==
    InitSecrets /\ [][NextSecrets]_vars

\* The security server: each of its eight tools applied to texts made of
\* lines that one sub-scanner reports (the last line is reported by none),
\* the same line up to MaxFindings times and then another line up to twice,
\* and to texts with a match longer than the snippet limit.
MaxFindings == 6

SecurityLines ==
    << "q = \"SELECT a\" + u",
       "eval(x)",
       "password = \"s\"",
       "p = \"../a\"",
       "pickle.loads(d)",
       "v = \"<b> + n\"",
       "x = input()",
       "n = 1" >>

RECURSIVE Repeated(_, _)
Repeated(line, n) ==
    IF n = 0 THEN "" ELSE line \o "\n" \o Repeated(line, n - 1)

\* A text of n characters c.
RECURSIVE Filled(_, _)
Filled(c, n) ==
    IF n = 0 THEN "" ELSE c \o Filled(c, n - 1)

\* Lines whose match is 100, 101 and 104 characters long (a query that is
\* concatenated) or that stays longer than the snippet limit when its
\* literal is masked (a password after many blanks).
LongLines ==
    {"\"SELECT " \o Filled("a", n) \o " + " : n \in {89, 90, 93}}
    \cup {"password" \o Filled(" ", n) \o "= \"s\"" : n \in {80, 81}}

\* The second example of the docstring of analyze_sql_injection: a query
\* with a placeholder, and its values handed to the call that executes it.
ParameterizedQuery ==
    "\ndef get_user(user_id):\n"
    \o "    query = \"SELECT * FROM users WHERE id = %s\"\n"
    \o "    return execute_query(query, (user_id,))\n"

\* Texts in which a later pattern of a table matches on an earlier line,
\* and a line that two patterns of a table match.
OrderTexts ==
    {"exec(x)\neval(y)\nexec(z)\n",
     "token = \"t\"\nsecret_key = \"s\"\npassword = \"p\"\n"}

SecurityTexts ==
    {Repeated(SecurityLines[l], n) \o Repeated(SecurityLines[m], k) :
        l \in 1..Len(SecurityLines), n \in 0..MaxFindings,
        m \in {2, 4, 7}, k \in 0..2}
    \cup LongLines
    \cup OrderTexts
    \cup {ParameterizedQuery}

InitSecurity ==
    /\ Arrives({PyStr(src) : src \in SecurityTexts})
    /\ nullAs = "SyntaxError"

NextSecurity ==
    \/ AnalyzeSqlInjection
    \/ AnalyzeCommandInjection
    \/ AnalyzeHardcodedSecrets
    \/ AnalyzePathTraversal
    \/ AnalyzeUnsafeDeserialization
    \/ AnalyzeXssVulnerabilities
    \/ AnalyzeInputValidation
    \/ ComprehensiveSecurityAnalysis

SpecSecurity ==
    InitSecurity /\ [][NextSecurity]_vars

(***************************************************************************)
(* Calls that run at the same time                                         *)
(*                                                                         *)
(* Each gradio request runs its analyzer in a thread of its own.  A frame  *)
(* holds what one call keeps in its local variables: the argument, the     *)
(* values computed so far and, once it has returned, its outcome.  The     *)
(* threads are interleaved between the statements of the analyzers.        *)
(***************************************************************************)

\* The number of calls in flight.
MaxInvocations == 2

ConcurrentTexts ==
    {Repeated("eval(x)", 2),
     "password = \"s\"\nn = 1\n",
     Repeated("n = 1", 3) \o "x = input()"}

ConcurrentTools ==
    {"comprehensive_security_analysis", "calculate_code_duplication"}

\* The frame of a thread that has not been given a request.
NoFrame ==
    [fn |-> "", code |-> PyNone, results |-> << >>, returned |-> FALSE,
     outcome |-> Return(NoValue)]

\* The parameter code of call p, as read from a frame the calls share: that
\* of the first thread that has been given a request.
ArgumentOfFirst(p) ==
    invocations[SetMin({q \in 1..p : invocations[q].fn # ""})].code

\* The parameter code of call p.
Argument(p) ==
    invocations[p].code

\* The k-th call the composite scanner makes.
SubScan(k, text) ==
    CASE k = 1 -> analyze_sql_injection(text)
      [] k = 2 -> analyze_command_injection(text)
      [] k = 3 -> analyze_hardcoded_secrets(text)
      [] k = 4 -> analyze_path_traversal(text)
      [] k = 5 -> analyze_unsafe_deserialization(text)
      [] k = 6 -> analyze_xss_vulnerabilities(text)
      [] OTHER -> analyze_input_validation(text)

\* The records the k-th sub-scanner hands to the logger: two when it starts
\* and two when it completes in the first three, none in the others.
SubScannerLogs(k) ==
    IF k <= 3 THEN 4 ELSE 0

\* Whether the last sub-scanner call of the frame raised.
LastRaised(frame) ==
    /\ frame.results # << >>
    /\ frame.results[Len(frame.results)].raised

\* A request arrives: thread p is given analyzer fn and its argument.
Invoke(p) ==
    /\ invocations[p].fn = ""
    /\ \E fn \in ConcurrentTools, text \in ConcurrentTexts :
           invocations' =
               [invocations EXCEPT ![p] = [NoFrame EXCEPT !.fn = fn,
                                                          !.code = PyStr(text)]]
    /\ UNCHANGED << code, nullAs, called, outcome, logged >>

\* The composite scanner of thread p makes its next sub-scanner call.
ScanNext(p) ==
    /\ invocations[p].fn = "comprehensive_security_analysis"
    /\ ~invocations[p].returned
    /\ Len(invocations[p].results) < 7
    /\ ~LastRaised(invocations[p])
    /\ invocations' =
           [invocations EXCEPT ![p].results =
               Append(@, SubScan(Len(@) + 1, Argument(p)))]
    /\ logged' = logged + SubScannerLogs(Len(invocations[p].results) + 1)
    /\ UNCHANGED << code, nullAs, called, outcome >>

\* The composite scanner of thread p returns its report, or the exception
\* of a sub-scanner leaves it.
ReportSecurity(p) ==
    /\ invocations[p].fn = "comprehensive_security_analysis"
    /\ ~invocations[p].returned
    /\ Len(invocations[p].results) = 7 \/ LastRaised(invocations[p])
    /\ invocations' =
           [invocations EXCEPT
               ![p].returned = TRUE,
               ![p].outcome =
                   IF LastRaised(invocations[p])
                   THEN invocations[p].results[Len(invocations[p].results)]
                   ELSE SecurityReport(invocations[p].results)]
    /\ UNCHANGED << code, nullAs, called, outcome, logged >>

\* The duplication analyzer of thread p logs its start and splits its
\* argument into lines.
SplitNext(p) ==
    /\ invocations[p].fn = "calculate_code_duplication"
    /\ ~invocations[p].returned
    /\ invocations[p].results = << >>
    /\ invocations' =
           [invocations EXCEPT ![p].results = << SplitLines(Argument(p).v) >>]
    /\ logged' = logged + 2
    /\ UNCHANGED << code, nullAs, called, outcome >>

\* The duplication analyzer of thread p counts the lines it has split, logs
\* its completion and returns.
ReportDuplication(p) ==
    /\ invocations[p].fn = "calculate_code_duplication"
    /\ ~invocations[p].returned
    /\ invocations[p].results # << >>
    /\ invocations' =
           [invocations EXCEPT
               ![p].returned = TRUE,
               ![p].outcome = DuplicationReport(invocations[p].results[1])]
    /\ logged' = logged + 2
    /\ UNCHANGED << code, nullAs, called, outcome >>

InitConcurrent ==
    /\ code = PyNone
    /\ nullAs = "SyntaxError"
    /\ called = ""
    /\ outcome = Return(NoValue)
    /\ invocations = [p \in 1..MaxInvocations |-> NoFrame]
    /\ logged = 0

NextConcurrent ==
    \E p \in 1..MaxInvocations :
        \/ Invoke(p)
        \/ ScanNext(p)
        \/ ReportSecurity(p)
        \/ SplitNext(p)
        \/ ReportDuplication(p)

SpecConcurrent ==
    InitConcurrent /\ [][NextConcurrent]_vars

(***************************************************************************)
(* The style analyzer on texts of lines of every kind it tells apart       *)
(***************************************************************************)

\* The number of lines of a text.
MaxLines == 3

\* A plain line, an empty line, a line of 79 and one of 80 characters, a
\* line with a blank at its end, lines indented with a tab, with a blank,
\* with a tab and a blank, a line with a tab in a string literal and a
\* line indented with a blank that ends with a tab.
StyleLines ==
    {"x = 1", "", "x = " \o Filled("1", 75), "x = " \o Filled("1", 76),
     "x = 1 ", "\tx = 1", " x = 1", "\t x = 1", "s = \"\t\"", " x = 1\t"}

RECURSIVE TextsOf(_, _)
TextsOf(lineKinds, n) ==
    IF n = 1 THEN lineKinds
    ELSE {t \o "\n" \o l : t \in TextsOf(lineKinds, n - 1), l \in lineKinds}

StyleTexts ==
    UNION {TextsOf(StyleLines, n) : n \in 1..MaxLines}

InitStyle ==
    /\ Arrives({PyStr(src) : src \in StyleTexts})
    /\ nullAs = "SyntaxError"

NextStyle ==
    AnalyzeCodeStyle

SpecStyle ==
    InitStyle /\ [][NextStyle]_vars

(***************************************************************************)
(* The naming analyzer on texts with identifiers of every kind it tells    *)
(* apart                                                                   *)
(***************************************************************************)

\* The number of statements of a text with names of several kinds, and the
\* number of occurrences of one name in a text.
MaxNames == 2
MaxOccurrences == 11

\* Names of one character that are and are not anti-patterns, names in
\* lower_snake_case (of 2, 30 and 31 characters), with a leading underscore,
\* in CapWords, in UPPER_CASE, in mixedCase and with a capital and an
\* underscore.
NamingNames ==
    {"x", "q", "O", "X", "_", "ab", "a1", "snake_case", "_private",
     "__init__", "CapWords", "A1", "MAX_SIZE", "mixedCase", "Ab_c",
     Filled("a", 30), Filled("a", 31), Filled("A", 31)}

\* A statement for each name: an assignment, a function with an argument,
\* a class, and a statement without a name.
NamingStatements ==
    {name \o " = 1" : name \in NamingNames}
    \cup {"def " \o name \o "(self): pass" : name \in {"f", "get_it", "getIt"}}
    \cup {"class " \o name \o ": pass" : name \in {"C", "my_class"}}
    \cup {"pass"}

NamingTexts ==
    UNION {TextsOf(NamingStatements, n) : n \in 1..MaxNames}
    \cup {Repeated(name \o " = 1", n) :
             name \in {"x", "q"}, n \in 3..MaxOccurrences}

InitNaming ==
    /\ Arrives({PyStr(src) : src \in NamingTexts})
    /\ nullAs = "SyntaxError"

NextNaming ==
    AnalyzeNamingConventions

SpecNaming ==
    InitNaming /\ [][NextNaming]_vars

(***************************************************************************)
(* The analyzers that score what they count, on texts with as many         *)
(* statements of a kind as the marks of the scores ask for                 *)
(***************************************************************************)

\* The numbers of statements of a kind in a text: around the marks of
\* analyze_error_handling (any bare except, more than 5 asserts) and of
\* measure_code_coverage_metrics (more than 10 ifs, more than 5 tries, more
\* than 20 branches).
BareExceptCounts == 0..6
AssertCounts == {0, 5, 6}
IfCounts == {0, 10, 11}
WhileCounts == {0, 10, 11}
TryCounts == {0, 5, 6}

BareTry == "try:\n f(x)\nexcept:\n pass"
SpecificTry == "try:\n f(x)\nexcept E:\n pass"

ErrorHandlingTexts ==
    {Repeated(BareTry, bare) \o Repeated(SpecificTry, specific)
         \o Repeated("raise E", raises) \o Repeated("assert a", asserts) :
       bare \in BareExceptCounts, specific \in 0..1, raises \in 0..1,
       asserts \in AssertCounts}

CoverageTexts ==
    {Repeated("if a: pass", ifs) \o Repeated("while a: pass", whiles)
         \o Repeated("for i in y: pass", fors) \o Repeated(BareTry, tries) :
       ifs \in IfCounts, whiles \in WhileCounts, fors \in 0..1,
       tries \in TryCounts}

\* The statements with operators and operands of a function body, and the
\* bodies of pass statements followed by the first of them.
OperatorStatements ==
    << " not a", " a + b", " a > b", " a", " b", " a" >>

RECURSIVE FirstStatements(_, _)
FirstStatements(stmts, n) ==
    IF n = 0 THEN ""
    ELSE FirstStatements(stmts, n - 1) \o stmts[n] \o "\n"

MaxPass == 11

MaintainabilityTexts ==
    {"def f():\n" \o Repeated(" pass", passes)
         \o FirstStatements(OperatorStatements, n) :
       passes \in 1..MaxPass, n \in 0..Len(OperatorStatements)}
    \cup {"pass\n", "a + b\n", "def f(): pass\ndef g():\n not a\n a\n"}

ScoreTexts ==
    ErrorHandlingTexts \cup CoverageTexts \cup MaintainabilityTexts

InitScores ==
    /\ Arrives({PyStr(src) : src \in ScoreTexts})
    /\ nullAs = "SyntaxError"

NextScores ==
    \/ AnalyzeErrorHandling
    \/ MeasureCodeCoverageMetrics
    \/ CalculateMaintainabilityIndex

SpecScores ==
    InitScores /\ [][NextScores]_vars

(***************************************************************************)
(* The documentation analyzer, one pass of its loop over the lines at a    *)
(* time                                                                    *)
(***************************************************************************)

\* The number of lines of a text.
MaxDocLines == 3

\* A function header, a docstring on one line, a statement, a comment, a
\* class and a function on one line, the first and the last line of a
\* docstring of several lines, a docstring on one line in the other
\* quotes, a statement with a # that is not the first character of
\* the line, and an empty line.
DocLines ==
    {"def f():", " \"\"\"doc\"\"\"", " return 1", "# note", "class C: pass",
     "def g(): pass", " \"\"\"first", " last\"\"\"", " '''doc'''",
     "s = \"#\"", ""}

DocTexts ==
    UNION {TextsOf(DocLines, n) : n \in 1..MaxDocLines}

\* The locals of the call when the loop is entered.
DocFrame(text) ==
    [fn |-> "analyze_documentation_quality",
     lines |-> SplitLines(text),
     i |-> 1,
     in_docstring |-> FALSE,
     docstring_delimiter |-> "",
     docstrings |-> << >>,
     inline_comments |-> << >>]

\* The call splits its argument and enters the loop.
EnterDocScan ==
    /\ called = ""
    /\ invocations = << >>
    /\ IsStr(code)
    /\ invocations' = << DocFrame(code.v) >>
    /\ UNCHANGED << code, nullAs, called, outcome, logged >>

\* The frame after the pass for its line i, which made of the line what
\* line says.
AfterPass(frame, line) ==
    [frame EXCEPT
        !.i = @ + 1,
        !.in_docstring = line.in_docstring,
        !.docstring_delimiter = line.docstring_delimiter,
        !.docstrings =
            IF line.here = "docstring" THEN Append(@, frame.i) ELSE @,
        !.inline_comments =
            IF line.here = "comment" THEN Append(@, frame.i) ELSE @]

\* One pass of the loop.
DocScanNext ==
    /\ called = ""
    /\ invocations # << >>
    /\ invocations[1].i <= Len(invocations[1].lines)
    /\ invocations' =
           << AfterPass(invocations[1],
                        DocLine(Strip(invocations[1].lines[invocations[1].i]),
                                invocations[1].in_docstring,
                                invocations[1].docstring_delimiter)) >>
    /\ UNCHANGED << code, nullAs, called, outcome, logged >>

\* The loop is over: the call parses the text and returns its report.
ReportDocumentation ==
    /\ invocations # << >>
    /\ invocations[1].i > Len(invocations[1].lines)
    /\ Call("analyze_documentation_quality",
            DocumentationOutcome(invocations[1].lines, invocations[1],
                                 AstParse(code.v, nullAs)))

InitDocumentation ==
    /\ Arrives({PyStr(src) : src \in DocTexts})
    /\ nullAs = "SyntaxError"

NextDocumentation ==
    \/ EnterDocScan
    \/ DocScanNext
    \/ ReportDocumentation

SpecDocumentation ==
    InitDocumentation /\ [][NextDocumentation]_vars

(***************************************************************************)
(* The duplication analyzer on texts with runs of equal lines              *)
(***************************************************************************)

\* The number of lines of a text.
MaxDupLines == 6

\* Two statements, the first of them indented, and a line of blanks.
DupLines ==
    {"x = 1", "y = 2", " x = 1", "  "}

DupTexts ==
    UNION {TextsOf(DupLines, n) : n \in 1..MaxDupLines}

InitDuplication ==
    /\ Arrives({PyStr(src) : src \in DupTexts})
    /\ nullAs = "SyntaxError"

NextDuplication ==
    CalculateCodeDuplication

SpecDuplication ==
    InitDuplication /\ [][NextDuplication]_vars

(***************************************************************************)
(* Properties of the analyzers                                             *)
(***************************************************************************)

MetricsAnalyzers ==
    {"calculate_code_complexity", "analyze_code_style",
     "measure_code_coverage_metrics", "analyze_naming_conventions",
     "calculate_maintainability_index", "analyze_documentation_quality",
     "calculate_code_duplication", "analyze_error_handling"}

\* The analyzers that report a parse failure under a category.
ParseReportingAnalyzers ==
    {"calculate_code_complexity", "measure_code_coverage_metrics",
     "analyze_naming_conventions", "calculate_maintainability_index",
     "analyze_error_handling"}

TreeBasedAnalyzers ==
    ParseReportingAnalyzers \cup {"analyze_documentation_quality"}

HasKey(rec, key) ==
    key \in DOMAIN rec

\* The call has returned an error record of the given category.
ReturnedError(category) ==
    /\ ~outcome.raised
    /\ HasKey(outcome.value, "error")
    /\ outcome.value.error = category

\* The argument is a string the parser rejects.
Unparseable ==
    IsStr(code) /\ ~AstParse(code.v, nullAs).ok

\* C1: whatever the argument, a string or not, no analyzer lets an
\* exception reach its caller -- every call ends in a returned record.
C1_NoExceptionPropagates ==
    called # "" => ~outcome.raised

\* C1, the case that goes wrong: the style analyzer called with None; the
\* TypeError of len(code) in its logging statement leaves the function.
C1_StyleRaisesOnNone ==
    /\ called = "analyze_code_style"
    /\ code.t = "NoneType"
    /\ outcome.raised
    /\ outcome.exc.cls = "TypeError"

\* C2: each of the six tree-based analyzers, the documentation analyzer
\* among them, answers an argument that is not a string with the record
\* "Invalid input type" and an empty or whitespace-only string with the
\* record "Empty input", without raising.
C2_InputIsValidatedFirst ==
    called \in TreeBasedAnalyzers =>
        /\ ~IsStr(code) => ReturnedError("Invalid input type")
        /\ (IsStr(code) /\ Strip(code.v) = "") => ReturnedError("Empty input")

\* C2, the case that goes wrong: the documentation analyzer called with the
\* empty string returns a documentation report.
C2_DocumentationReportsOnEmpty ==
    /\ called = "analyze_documentation_quality"
    /\ IsStr(code) /\ code.v = ""
    /\ ~outcome.raised
    /\ HasKey(outcome.value, "documentation_score")

\* C3: for a string that is not blank and that the parser rejects, each of
\* the five analyzers returns the record "Invalid Python syntax" with
\* details, line, offset and text, and line is an integer or "unknown".
C3_ParseFailureHasLine ==
    (called \in ParseReportingAnalyzers /\ Unparseable /\ Strip(code.v) # "") =>
        /\ ReturnedError("Invalid Python syntax")
        /\ {"details", "line", "offset", "text"} \subseteq DOMAIN outcome.value
        /\ \/ outcome.value.line.t = "int"
           \/ (outcome.value.line.t = "str" /\ outcome.value.line.v = "unknown")

\* C3, the case that goes wrong: a text with a null character, which the
\* parser rejects with a SyntaxError that has no location; line is null.
C3_NullLine ==
    /\ called = "calculate_code_complexity"
    /\ IsStr(code) /\ code.v = "x = 1" \o NUL
    /\ nullAs = "SyntaxError"
    /\ ReturnedError("Invalid Python syntax")
    /\ outcome.value.line.t = "NoneType"

\* C4: every error record that one of the eight metrics analyzers returns
\* has a "details" key next to its "error" key.
C4_ErrorRecordHasDetails ==
    (called \in MetricsAnalyzers /\ ~outcome.raised
     /\ HasKey(outcome.value, "error")) =>
        HasKey(outcome.value, "details")

\* C4, the case that goes wrong: the style analyzer called with bytes; the
\* record of its except clause has the key "error" only.
C4_StyleErrorWithoutDetails ==
    /\ called = "analyze_code_style"
    /\ code.t = "bytes"
    /\ ~outcome.raised
    /\ DOMAIN outcome.value = {"error"}

\* C5: for a string the parser rejects, the documentation analyzer returns
\* an error record with the keys of a parse failure, never a documentation
\* report.
C5_DocumentationStopsOnParseFailure ==
    (called = "analyze_documentation_quality" /\ Unparseable) =>
        /\ ~outcome.raised
        /\ {"error", "details", "line"} \subseteq DOMAIN outcome.value
        /\ ~HasKey(outcome.value, "documentation_score")

\* C5, the case that goes wrong: an unclosed parenthesis; the analyzer
\* returns a report computed from the lines, with no function in it.
C5_DocumentationReportsOnSyntaxError ==
    /\ called = "analyze_documentation_quality"
    /\ IsStr(code) /\ code.v = "x = ("
    /\ ~outcome.raised
    /\ HasKey(outcome.value, "documentation_score")
    /\ outcome.value.function_count = 0

\* C6: when the parser rejects the text with an indentation error, the
\* record the analyzer returns has the category "Indentation error".
C6_IndentationErrorHasItsCategory ==
    (/\ called \in ParseReportingAnalyzers
     /\ Unparseable /\ Strip(code.v) # ""
     /\ AstParse(code.v, nullAs).exc.cls \in IndentationErrorClasses) =>
        ReturnedError("Indentation error")

\* C6, the case that goes wrong: an if statement without a body is an
\* indentation error, reported as "Invalid Python syntax" by the except
\* clause for SyntaxError, which is tried first.
C6_IndentationErrorAsSyntaxError ==
    /\ called = "measure_code_coverage_metrics"
    /\ IsStr(code) /\ code.v = "if x:"
    /\ AstParse(code.v, nullAs).exc.cls = "IndentationError"
    /\ ReturnedError("Invalid Python syntax")

\* The decisions of one node as the cyclomatic complexity counts them: one
\* for a conditional or a loop, for an exception handler, for a with block,
\* for an assert and for a raise, one less than the operands for a boolean
\* operator, none for anything else.
Decisions(node) ==
    CASE node.type \in {"If", "While", "For", "AsyncFor"} -> 1
      [] node.type = "ExceptHandler" -> 1
      [] node.type \in {"With", "AsyncWith"} -> 1
      [] node.type = "Assert" -> 1
      [] node.type = "Raise" -> 1
      [] node.type = "BoolOp" -> Len(Field(node, "values")) - 1
      [] OTHER -> 0

\* The decisions of a node and of everything below it, child by child.
RECURSIVE DecisionsIn(_)
RECURSIVE DecisionsAmong(_, _, _)
DecisionsIn(node) ==
    Decisions(node)
    + DecisionsAmong(IterChildNodes(node), 1, Len(IterChildNodes(node)))

DecisionsAmong(nodes, lo, hi) ==
    IF lo > hi THEN 0
    ELSE IF lo = hi THEN DecisionsIn(nodes[lo])
    ELSE DecisionsAmong(nodes, lo, (lo + hi) \div 2)
         + DecisionsAmong(nodes, (lo + hi) \div 2 + 1, hi)

\* The complexity analyzer has returned a report, not an error record.
ComplexityReported ==
    /\ called = "calculate_code_complexity"
    /\ ~outcome.raised
    /\ HasKey(outcome.value, "cyclomatic_complexity")

HelloWorld == "def hello(): return 'world'"

C8_LevelThresholds ==
    ComplexityReported =>
        LET c == outcome.value.cyclomatic_complexity
            level == outcome.value.complexity_level
        IN  /\ level = "low" <=> c <= 5
            /\ level = "medium" <=> (6 <= c /\ c <= 10)
            /\ level = "high" <=> c >= 11

\* C8, a case: a complexity of exactly 10, still "medium".
C8_TenIsMedium ==
    /\ ComplexityReported
    /\ outcome.value.cyclomatic_complexity = 10
    /\ outcome.value.complexity_level = "medium"

\* What the complexity analyzer returns for the text with another if
\* statement appended to it.
WithAnotherIf ==
    calculate_code_complexity(PyStr(code.v \o "if x: pass"), nullAs)

\* C9 as stated: for every text f with a reported complexity, the text
\* f + "if x: pass" has a reported complexity too, and no smaller one.
C9_AppendedIfAlwaysReported ==
    ComplexityReported =>
        LET appended == WithAnotherIf
        IN  /\ ~appended.raised
            /\ HasKey(appended.value, "cyclomatic_complexity")
            /\ appended.value.cyclomatic_complexity
                   >= outcome.value.cyclomatic_complexity

\* C9, for the texts that end with a line break: for every such text f
\* with a reported complexity, f + "if x: pass" has a reported complexity
\* too, and it is not smaller than the one of f.
C9_AppendedIfAfterLineBreak ==
    (ComplexityReported /\ Ch(code.v, Len(code.v)) = "\n") =>
        LET appended == WithAnotherIf
        IN  /\ ~appended.raised
            /\ HasKey(appended.value, "cyclomatic_complexity")
            /\ appended.value.cyclomatic_complexity
                   >= outcome.value.cyclomatic_complexity

\* C9, a case: a text of two statements that ends with a line break, and
\* the appended if statement raises its complexity.
C9_AppendedIfCounts ==
    /\ ComplexityReported
    /\ code.v = "x = 1\nif a: pass\n"
    /\ outcome.value.cyclomatic_complexity = 2
    /\ HasKey(WithAnotherIf.value, "cyclomatic_complexity")
    /\ WithAnotherIf.value.cyclomatic_complexity = 3

\* C9, the case that goes wrong: a text without a final line break; the
\* appended text "x = 1if x: pass" is not valid Python.
C9_AppendedIfRejected ==
    /\ ComplexityReported
    /\ code.v = "x = 1"
    /\ HasKey(WithAnotherIf.value, "error")
    /\ WithAnotherIf.value.error = "Invalid Python syntax"

\* The text between the first and the last quote character of a line: the
\* literal of an assignment of a quoted literal.
QuotedLiteral(line) ==
    LET quotes == {i \in 1..Len(line) : Ch(line, i) \in QuoteChars}
    IN  IF quotes = {} THEN ""
        ELSE SubSeq(line, SetMin(quotes) + 1, SetMax(quotes) - 1)

\* The secrets scanner has returned its report.
SecretsReported ==
    /\ called = "analyze_hardcoded_secrets"
    /\ ~outcome.raised
    /\ HasKey(outcome.value, "vulnerabilities")

\* C10: no finding of the secrets scanner shows, in its code snippet, the
\* literal of the line it was found on, whatever the name and the value
\* (a value that occurs in the name too included); and the text
\* password = "secret123" has exactly one finding, of type "Hardcoded
\* Secret", whose snippet holds ***MASKED*** and not secret123.
C10_SnippetHidesLiteral ==
    SecretsReported =>
        LET found == outcome.value.vulnerabilities
            lines == SplitLines(code.v)
        IN  /\ \A i \in 1..Len(found) :
                   ~Contains(found[i].code, QuotedLiteral(lines[found[i].line]))
            /\ code.v = "password = \"secret123\"" =>
                   /\ Len(found) = 1
                   /\ found[1].type = "Hardcoded Secret"
                   /\ Contains(found[1].code, "***MASKED***")
                   /\ ~Contains(found[1].code, "secret123")

\* C10, the case that goes wrong: the value is also the name; the snippet
\* masks the literal and still shows the value, in the name.
C10_ValueShownInName ==
    /\ SecretsReported
    /\ code.v = "pwd = \"pwd\""
    /\ Len(outcome.value.vulnerabilities) = 1
    /\ outcome.value.vulnerabilities[1].code = "pwd = \"***MASKED***\""
    /\ Contains(outcome.value.vulnerabilities[1].code, "pwd")

\* The composite scanner has returned its report.
CompositeReported ==
    /\ called = "comprehensive_security_analysis"
    /\ ~outcome.raised
    /\ HasKey(outcome.value, "overall_risk_level")

\* The findings of a sequence that have the given severity.
WithSeverity(found, severity) ==
    SelectSeq(found, LAMBDA v : v.severity = severity)

\* C11: in every report of the composite scanner the two counts are the
\* numbers of findings of high and of medium severity; overall_risk_level is
\* "high" exactly with a finding of high severity, "medium" exactly with
\* none of high and more than three of medium severity, "low" otherwise;
\* and security_score is max(0, 100 - 20 * high - 10 * medium), a number
\* from 0 to 100.
C11_RiskLevelAndScore ==
    CompositeReported =>
        LET r == outcome.value
            high == r.high_severity_count
            medium == r.medium_severity_count
        IN  /\ high = Len(WithSeverity(r.all_vulnerabilities, "high"))
            /\ medium = Len(WithSeverity(r.all_vulnerabilities, "medium"))
            /\ r.overall_risk_level = "high" <=> high >= 1
            /\ r.overall_risk_level = "medium" <=> (high = 0 /\ medium > 3)
            /\ r.overall_risk_level = "low" <=> (high = 0 /\ medium <= 3)
            /\ r.security_score = Max(0, 100 - 20 * high - 10 * medium)
            /\ r.security_score \in 0..100

\* C11, a case: four findings of medium severity and none of high; the
\* level is "medium" and the score 60.
C11_FourMediumFindings ==
    /\ CompositeReported
    /\ outcome.value.high_severity_count = 0
    /\ outcome.value.medium_severity_count = 4
    /\ outcome.value.overall_risk_level = "medium"
    /\ outcome.value.security_score = 60

SubScanners ==
    {"analyze_sql_injection", "analyze_command_injection",
     "analyze_hardcoded_secrets", "analyze_path_traversal",
     "analyze_unsafe_deserialization", "analyze_xss_vulnerabilities",
     "analyze_input_validation"}

\* One of the seven sub-scanners has returned its report.
SubScannerReported ==
    /\ called \in SubScanners
    /\ ~outcome.raised
    /\ HasKey(outcome.value, "vulnerabilities")

\* The number of findings above which a sub-scanner is to report "high".
HighAbove ==
    [analyze_sql_injection |-> 3,
     analyze_command_injection |-> 2,
     analyze_hardcoded_secrets |-> 2,
     analyze_path_traversal |-> 3,
     analyze_unsafe_deserialization |-> 1,
     analyze_xss_vulnerabilities |-> 2,
     analyze_input_validation |-> 5]

PatternsOf ==
    [analyze_sql_injection |-> sql_injection_patterns,
     analyze_command_injection |-> command_injection_patterns,
     analyze_hardcoded_secrets |-> secret_patterns,
     analyze_path_traversal |-> path_traversal_patterns,
     analyze_unsafe_deserialization |-> deserialization_patterns,
     analyze_xss_vulnerabilities |-> xss_patterns,
     analyze_input_validation |-> validation_patterns]

\* The texts that the patterns of a table match in a text, pattern by
\* pattern and match by match.
MatchedTexts(table, text) ==
    LET matched(ms) == [i \in 1..Len(ms) |-> Group0(text, ms[i])]
    IN  Flatten([k \in 1..Len(table) |->
                    matched(ReFindIter(ReCompile(table[k][1]), text, FlagsIM))],
                1, Len(table))

\* A text cut to 100 characters, with "..." after it exactly when it was
\* longer.
CutTo100(text) ==
    IF Len(text) > 100 THEN SubSeq(text, 1, 100) \o "..." ELSE text

\* C13: the snippet of every finding of every sub-scanner is the matched
\* text (for the secrets scanner: the matched text with its literal masked)
\* cut to 100 characters, with "..." appended exactly when it was longer;
\* so no snippet of any report, the composite report included, is longer
\* than 103 characters.
C13_SnippetIsCutMatch ==
    /\ SubScannerReported =>
           LET found == outcome.value.vulnerabilities
               texts == MatchedTexts(PatternsOf[called], code.v)
               shown(t) == IF called = "analyze_hardcoded_secrets"
                           THEN Masked(t) ELSE t
           IN  /\ Len(found) = Len(texts)
               /\ \A i \in 1..Len(found) :
                      /\ found[i].code = CutTo100(shown(texts[i]))
                      /\ Len(found[i].code) <= 103
    /\ CompositeReported =>
           \A i \in 1..Len(outcome.value.all_vulnerabilities) :
               Len(outcome.value.all_vulnerabilities[i].code) <= 103

\* C13, the case that goes wrong: a password assigned after 81 blanks; the
\* snippet of the secrets scanner is the whole masked match, 105 characters
\* long and without "...".
C13_LongSecretSnippet ==
    /\ SubScannerReported
    /\ called = "analyze_hardcoded_secrets"
    /\ code.v = "password" \o Filled(" ", 81) \o "= \"s\""
    /\ Len(outcome.value.vulnerabilities) = 1
    /\ outcome.value.vulnerabilities[1].code
           = "password" \o Filled(" ", 81) \o "= \"***MASKED***\""
    /\ Len(outcome.value.vulnerabilities[1].code) = 105

\* C13 for the six scanners that cut the match (the case of a match of more
\* than 100 characters is C13_LongQuerySnippet).
C13_OtherSnippetsAreCut ==
    (SubScannerReported /\ called # "analyze_hardcoded_secrets") =>
        LET found == outcome.value.vulnerabilities
            texts == MatchedTexts(PatternsOf[called], code.v)
        IN  /\ Len(found) = Len(texts)
            /\ \A i \in 1..Len(found) :
                   /\ found[i].code = CutTo100(texts[i])
                   /\ Len(found[i].code) <= 103

C13_LongQuerySnippet ==
    /\ SubScannerReported
    /\ called = "analyze_sql_injection"
    /\ code.v = "\"SELECT " \o Filled("a", 90) \o " + "
    /\ Len(outcome.value.vulnerabilities) = 1
    /\ outcome.value.vulnerabilities[1].code
           = "\"SELECT " \o Filled("a", 90) \o " +..."

\* The findings of the seven sub-scanners for a text, in the order SQL
\* injection, command injection, hardcoded secrets, path traversal, unsafe
\* deserialization, XSS, input validation.
SubScannerFindings(text) ==
    << analyze_sql_injection(text).value.vulnerabilities,
       analyze_command_injection(text).value.vulnerabilities,
       analyze_hardcoded_secrets(text).value.vulnerabilities,
       analyze_path_traversal(text).value.vulnerabilities,
       analyze_unsafe_deserialization(text).value.vulnerabilities,
       analyze_xss_vulnerabilities(text).value.vulnerabilities,
       analyze_input_validation(text).value.vulnerabilities >>

\* C14: all_vulnerabilities of the composite report is the findings of the
\* seven sub-scanners one list after the other, in the fixed order and each
\* list as the sub-scanner returns it; vulnerability_types has one list for
\* each type that occurs, and that list is the findings of the type in the
\* order they have in all_vulnerabilities.
C14_ConcatenationInOrder ==
    CompositeReported =>
        LET r == outcome.value
            all == r.all_vulnerabilities
            parts == SubScannerFindings(code)
        IN  /\ all = Flatten(parts, 1, 7)
            /\ r.total_vulnerabilities = Len(all)
            /\ DOMAIN r.vulnerability_types = {all[i].type : i \in 1..Len(all)}
            /\ \A type \in DOMAIN r.vulnerability_types :
                   r.vulnerability_types[type]
                       = SelectSeq(all, LAMBDA v : v.type = type)

\* C14, a case: input() on line 1 and eval on line 2; the finding of the
\* command-injection scanner, on line 2, is listed before the finding of
\* the input-validation scanner, on line 1.
C14_EvalListedBeforeInput ==
    /\ CompositeReported
    /\ code.v = Repeated(SecurityLines[7], 1) \o Repeated(SecurityLines[2], 1)
    /\ Len(outcome.value.all_vulnerabilities) = 2
    /\ outcome.value.all_vulnerabilities[1].type = "Command Injection"
    /\ outcome.value.all_vulnerabilities[1].line = 2
    /\ outcome.value.all_vulnerabilities[2].type = "Input Validation"
    /\ outcome.value.all_vulnerabilities[2].line = 1
    /\ DOMAIN outcome.value.vulnerability_types
           = {"Command Injection", "Input Validation"}

\* C15: however calls that run at the same time are interleaved, the values
\* a call has computed so far are those of its own argument, and a call that
\* has returned has returned what the analyzer returns for its argument
\* when it is called alone; two calls of one analyzer with one text return
\* the same record.
Alone(fn, text) ==
    IF fn = "calculate_code_duplication"
    THEN calculate_code_duplication(text)
    ELSE comprehensive_security_analysis(text)

OwnValues(frame) ==
    IF frame.fn = "calculate_code_duplication"
    THEN frame.results \in {<< >>, << SplitLines(frame.code.v) >>}
    ELSE \A k \in 1..Len(frame.results) :
             frame.results[k] = SubScan(k, frame.code)

C15_InvocationsIndependent ==
    /\ \A p \in DOMAIN invocations :
           invocations[p].fn # "" =>
               /\ OwnValues(invocations[p])
               /\ invocations[p].returned =>
                      invocations[p].outcome =
                          Alone(invocations[p].fn, invocations[p].code)
    /\ \A p, q \in DOMAIN invocations :
           /\ invocations[p].returned
           /\ invocations[q].returned
           /\ invocations[p].fn = invocations[q].fn
           /\ invocations[p].code = invocations[q].code
           => invocations[p].outcome = invocations[q].outcome

\* The second call has returned its report while the first, a composite scan
\* of another text, is between two of its sub-scanner calls and has
\* findings of its own.
C15_ReturnedWhileOtherScans ==
    /\ DOMAIN invocations = 1..MaxInvocations
    /\ invocations[2].returned
    /\ invocations[1].fn = "comprehensive_security_analysis"
    /\ ~invocations[1].returned
    /\ Len(invocations[1].results) \in 2..6
    /\ invocations[1].code # invocations[2].code
    /\ invocations[1].results[2].value.vulnerabilities # << >>
    /\ logged > 0

\* C16: a report of a tree-based analyzer carries, under "warnings", an
\* entry for each of: a call of a listed dangerous name, an integer literal
\* with a leading zero, a line with an odd number of quotes, an indentation
\* of tabs and blanks; "warnings" is null when none of them occurs.
DangerousPatterns ==
    << "__import__\\s*\\(", "eval\\s*\\(", "exec\\s*\\(", "compile\\s*\\(",
       "input\\s*\\(", "open\\s*\\(", "file\\s*\\(", "raw_input\\s*\\(" >>

DangerousRes ==
    [k \in 1..Len(DangerousPatterns) |-> ReCompile(DangerousPatterns[k])]

\* Whether the loop over dangerous_patterns finds one of them in the text.
UsesDangerousCall(text) ==
    \E k \in 1..Len(DangerousRes) : ReSearch(DangerousRes[k], text, FlagsI)

IndentOf(line) ==
    SubSeq(line, 1, Len(line) - Len(LStrip(line)))

TreeReportReturned ==
    /\ called \in ParseReportingAnalyzers
    /\ IsStr(code)
    /\ ~outcome.raised
    /\ ~HasKey(outcome.value, "error")

WarningEntries ==
    IF outcome.value.warnings = PyNone THEN << >>
    ELSE outcome.value.warnings.items

AdvisoryKinds ==
    << "Leading zeros in integer literals", "Potential unmatched quotes",
       "Mixed tabs and spaces" >>

HasEntry(prefix) ==
    \E k \in 1..Len(WarningEntries) : StartsWith(WarningEntries[k], prefix)

HasOtherEntry ==
    \E k \in 1..Len(WarningEntries) :
        \A n \in 1..Len(AdvisoryKinds) :
            ~StartsWith(WarningEntries[k], AdvisoryKinds[n])

OddQuotes(line) ==
    CountChar(line, "'") % 2 # 0 \/ CountChar(line, "\"") % 2 # 0

C16_PreScanWarnings ==
    TreeReportReturned =>
        LET lines == SplitLines(code.v)
            dangerous == UsesDangerousCall(code.v)
            zeros == ReSearch(LeadingZeroRe, code.v, FlagsNone)
            quotes == \E i \in 1..Len(lines) : OddQuotes(lines[i])
            mixed == \E i \in 1..Len(lines) :
                         /\ Contains(IndentOf(lines[i]), "\t")
                         /\ Contains(IndentOf(lines[i]), " ")
        IN  /\ dangerous => HasOtherEntry
            /\ zeros => HasEntry(AdvisoryKinds[1])
            /\ quotes => HasEntry(AdvisoryKinds[2])
            /\ mixed => HasEntry(AdvisoryKinds[3])
            /\ ~(dangerous \/ zeros \/ quotes \/ mixed) =>
                   outcome.value.warnings = PyNone

\* A text that calls eval, exec and globals has been analysed and the
\* report has no warnings.
C16_EvalWithoutWarning ==
    /\ TreeReportReturned
    /\ UsesDangerousCall(code.v)
    /\ Contains(code.v, "eval(x)")
    /\ outcome.value.warnings = PyNone

\* C17: style_issues has one entry for each category of issue that occurs
\* (long lines, trailing whitespace, mixed tabs and spaces), however many
\* lines have it, and style_score is 100 less 10 for each entry, never
\* below 0.
StyleReported ==
    /\ called = "analyze_code_style"
    /\ IsStr(code)
    /\ ~outcome.raised

StyleCategories ==
    << "Long lines found at: ", "Trailing whitespace at lines: ",
       "Mixed tabs and spaces detected" >>

\* The categories that have an entry in style_issues.
CategoriesIn(style_issues) ==
    {n \in 1..Len(StyleCategories) :
        \E k \in 1..Len(style_issues) :
            StartsWith(style_issues[k], StyleCategories[n])}

C18_MixedIffBothIndentations ==
    StyleReported =>
        LET lines == SplitLines(code.v)
        IN  3 \in CategoriesIn(outcome.value.style_issues) <=>
                /\ \E i \in 1..Len(lines) : StartsWith(lines[i], "\t")
                /\ \E i \in 1..Len(lines) : StartsWith(lines[i], " ")

\* A line with a tab in a string literal and a line indented with a blank,
\* none indented with a tab: the analyzer reports mixed tabs and spaces.
C18_TabInLiteralReported ==
    /\ StyleReported
    /\ code.v = "s = \"\t\"\n x = 1"
    /\ 3 \in CategoriesIn(outcome.value.style_issues)

\* C19: every occurrence of an identifier is classified by the first rule
\* that applies: shorter than 2 characters "too short", longer than 30
\* "too long", lower_snake_case without a leading underscore good, CapWords
\* good, anything else "poor naming convention"; good_names counts the good
\* occurrences and convention_compliance is their percentage, 100 when the
\* text has no identifier.
NamingReported ==
    /\ called = "analyze_naming_conventions"
    /\ IsStr(code)
    /\ ~outcome.raised
    /\ ~HasKey(outcome.value, "error")

\* The identifiers of the text, in the order the analyzer collects them.
Identifiers ==
    NamesOf(AstWalk(AstParse(code.v, nullAs).tree))

IsLowerSnake(name) ==
    /\ SubSeq(name, 1, 1) \in CharsOf(LowerLetters \o "_")
    /\ \A i \in 1..Len(name) :
           SubSeq(name, i, i) \in CharsOf(LowerLetters \o Digits \o "_")

IsCapWords(name) ==
    /\ SubSeq(name, 1, 1) \in CharsOf(UpperLetters)
    /\ \A i \in 1..Len(name) :
           SubSeq(name, i, i)
               \in CharsOf(LowerLetters \o UpperLetters \o Digits)

Classified(name) ==
    IF Len(name) < 2 THEN "Too short name: "
    ELSE IF Len(name) > 30 THEN "Too long name: "
    ELSE IF IsLowerSnake(name) /\ SubSeq(name, 1, 1) # "_" THEN "good"
    ELSE IF IsCapWords(name) THEN "good"
    ELSE "Poor naming convention: "

\* The occurrences that are not good, in the order of the identifiers.
NotGood(names) ==
    SelectSeq(names, LAMBDA name : Classified(name) # "good")

C19_ClassifiedByFirstRule ==
    NamingReported =>
        LET names == Identifiers
            bad == NotGood(Identifiers)
            report == outcome.value
        IN  /\ report.total_identifiers = Len(names)
            /\ report.good_names = Len(names) - Len(bad)
            /\ Len(report.naming_issues) >= Len(bad)
            /\ \A k \in 1..Len(bad) :
                   report.naming_issues[k] = Classified(bad[k]) \o bad[k]
            /\ IF names = << >>
               THEN report.convention_compliance = PyInt(100)
               ELSE report.convention_compliance =
                        Round(100 * report.good_names, Len(names), 1)

\* A text with a name with a leading underscore and a name in CapWords:
\* one good name of two, and one entry for a poor naming convention.
C19_PrivateAndCapWords ==
    /\ NamingReported
    /\ code.v = "_private = 1\nCapWords = 1"
    /\ outcome.value.good_names = 1
    /\ outcome.value.naming_issues = << "Poor naming convention: _private" >>

\* C20: naming_issues holds an entry for every occurrence that is not good
\* and then a "single letter" entry for every occurrence of l, O, I, a, b,
\* x, y or z; naming_score is 100 less 5 for each entry, so less 10 for
\* each such occurrence, and never below 0.
IsAntiPattern(name) ==
    name \in {"l", "O", "I", "a", "b", "x", "y", "z"}

C20_ScoreByIssues ==
    NamingReported =>
        LET single == SelectSeq(Identifiers, IsAntiPattern)
            bad == NotGood(Identifiers)
            report == outcome.value
        IN  /\ Len(report.naming_issues) =
                   report.total_identifiers - report.good_names + Len(single)
            /\ \A k \in 1..Len(single) :
                   report.naming_issues[Len(bad) + k] =
                       "Single letter variable: " \o single[k]
            /\ report.naming_score =
                   Max(0, 100 - 5 * Len(report.naming_issues))
            /\ report.naming_score =
                   Max(0, 100 - 5 * (Len(bad) - Len(single)) - 10 * Len(single))

\* Eleven occurrences of x: twenty-two entries and the score 0.
C20_ElevenSingleLetters ==
    /\ NamingReported
    /\ Len(Identifiers) = 11
    /\ Len(outcome.value.naming_issues) = 22
    /\ outcome.value.naming_score = 0

\* A report of analyzer fn on a text that parses.
Reported(fn) ==
    /\ called = fn
    /\ IsStr(code)
    /\ ~outcome.raised
    /\ ~HasKey(outcome.value, "error")

\* The number of lines of the text that start, after their indentation,
\* with one of the prefixes.
LinesWith(prefixes) ==
    Cardinality({i \in 1..Len(SplitLines(code.v)) :
                    \E prefix \in prefixes :
                        StartsWith(Strip(SplitLines(code.v)[i]), prefix)})

\* C21: a report of analyze_error_handling counts the try statements, the
\* handlers (bare_excepts of them without a type, specific_exceptions with
\* one), the raise and the assert statements of the text;
\* error_handling_score is 100 less 20 for each bare except, less 30 when
\* there is a raise and no try, less 15 when there are more than 5 asserts,
\* and not below 0; robustness_level is "excellent" for a score above 85,
\* "good" above 70, "fair" above 50 and "poor" for every other score.
C21_ErrorHandlingScore ==
    Reported("analyze_error_handling") =>
        LET report == outcome.value
            score == report.error_handling_score
        IN  /\ report.try_blocks = LinesWith({"try:"})
            /\ report.bare_excepts = LinesWith({"except:"})
            /\ report.except_blocks = LinesWith({"except"})
            /\ report.raise_statements = LinesWith({"raise "})
            /\ report.assert_statements = LinesWith({"assert "})
            /\ report.specific_exceptions + report.bare_excepts =
                   report.except_blocks
            /\ score =
                   Max(0, 100 - 20 * report.bare_excepts
                              - (IF /\ report.raise_statements > 0
                                    /\ report.try_blocks = 0
                                 THEN 30 ELSE 0)
                              - (IF report.assert_statements > 5 THEN 15 ELSE 0))
            /\ report.robustness_level = "excellent" <=> score > 85
            /\ report.robustness_level = "good" <=> score > 70 /\ score <= 85
            /\ report.robustness_level = "fair" <=> score > 50 /\ score <= 70
            /\ report.robustness_level = "poor" <=> score <= 50

\* Six asserts and nothing else: the score 85, which is "good".
C21_SixAsserts ==
    /\ Reported("analyze_error_handling")
    /\ outcome.value.assert_statements = 6
    /\ outcome.value.error_handling_score = 85
    /\ outcome.value.robustness_level = "good"

\* C22: in a report of measure_code_coverage_metrics, branch_complexity is
\* the number of if, for and while statements of the text and
\* testability_score is 100 less 20 for more than 10 ifs, less 15 for more
\* than 5 tries and less 25 for a branch_complexity above 20, each penalty
\* whether or not the others apply; so the score is at least 40, and at
\* most 75 when branch_complexity is above 20.
C22_TestabilityScore ==
    Reported("measure_code_coverage_metrics") =>
        LET report == outcome.value
            ifs == LinesWith({"if "})
            loops == LinesWith({"for ", "while "})
            tries == LinesWith({"try:"})
        IN  /\ report.conditional_statements = ifs
            /\ report.loop_statements = loops
            /\ report.branch_complexity = ifs + loops
            /\ report.testability_score =
                   100 - (IF ifs > 10 THEN 20 ELSE 0)
                       - (IF tries > 5 THEN 15 ELSE 0)
                       - (IF ifs + loops > 20 THEN 25 ELSE 0)
            /\ report.testability_score >= 40
            /\ report.branch_complexity > 20 => report.testability_score <= 75

\* Eleven ifs, ten loops and six tries: all three penalties, the score 40.
C22_AllPenalties ==
    /\ Reported("measure_code_coverage_metrics")
    /\ outcome.value.conditional_statements = 11
    /\ outcome.value.branch_complexity = 21
    /\ outcome.value.exception_handling = 12
    /\ outcome.value.testability_score = 40

\* The counts calculate_maintainability_index takes from the tree of the
\* text, and the value of
\*   171 - 5.2 * bit_length(volume) - 0.23 * difficulty
\*       - 16.2 * avg_function_length
\* as the fraction num / den.
Bits(n) ==
    SetMin({k \in 0..30 : n < 2 ^ k})

IndexOf(h, function_count, bodies) ==
    LET operands == IF h.unique_operands > 0 THEN h.unique_operands ELSE 1
        count == IF function_count > 0 THEN function_count ELSE 1
        volume == (h.total_operators + h.total_operands)
                  * Bits(h.unique_operators + h.unique_operands)
    IN  [num |-> 171 * 200 * operands * count
                 - 52 * 20 * Bits(volume) * operands * count
                 - (IF h.unique_operands > 0
                    THEN 23 * h.unique_operators * h.total_operands * count
                    ELSE 0)
                 - 162 * 20 * bodies * operands,
         den |-> 200 * operands * count,
         function_count |-> function_count,
         bodies |-> bodies]

IndexOfFunctions(h, functions) ==
    IndexOf(h, Len(functions), BodyLengths(functions))

IndexOfNodes(nodes) ==
    IndexOfFunctions(Halstead(nodes), NodesOfType(nodes, {"FunctionDef"}))

TextIndex ==
    IndexOfNodes(AstWalk(AstParse(code.v, nullAs).tree))

\* A reported number in tenths.
Tenths(number) ==
    IF number.t = "int" THEN 10 * number.n ELSE number.units

\* C25 as the specification states it: maintainability_index is
\* max(0, 171 - 5.2 * bit_length(volume) - 0.23 * difficulty
\*           - 16.2 * avg_function_length)
\* and maintainability_level is "excellent" for an index above 85, "good"
\* above 65, "fair" above 25 and "poor" for every other index.
C25_LevelOfReportedIndex ==
    Reported("calculate_maintainability_index") =>
        LET report == outcome.value
            tenths == Tenths(report.maintainability_index)
        IN  /\ tenths * TextIndex.den = 10 * Max(0, TextIndex.num)
            /\ report.maintainability_level = "excellent" <=> tenths > 850
            /\ report.maintainability_level = "good" <=>
                   tenths > 650 /\ tenths <= 850
            /\ report.maintainability_level = "fair" <=>
                   tenths > 250 /\ tenths <= 650
            /\ report.maintainability_level = "poor" <=> tenths <= 250

\* C25: maintainability_index is the value max(0, 171 - 5.2 *
\* bit_length(volume) - 0.23 * difficulty - 16.2 * avg_function_length)
\* rounded to one decimal place, from 0 to 171, and 0 when the functions
\* average 11 or more body statements; maintainability_level is decided on
\* the value before it is rounded: "excellent" above 85, "good" above 65,
\* "fair" above 25, and "poor" for every other value.
C25_IndexRoundedLevelNot ==
    Reported("calculate_maintainability_index") =>
        LET report == outcome.value
            tenths == Tenths(report.maintainability_index)
            value == TextIndex
        IN  /\ report.maintainability_index.t = "float" <=> value.num > 0
            /\ 2 * (tenths * value.den - 10 * Max(0, value.num)) <= value.den
            /\ 2 * (10 * Max(0, value.num) - tenths * value.den) <= value.den
            /\ tenths \in 0..1710
            /\ report.function_count = value.function_count
            /\ (/\ value.function_count > 0
                /\ value.bodies >= 11 * value.function_count) => tenths = 0
            /\ report.maintainability_level = "excellent" <=>
                   value.num > 85 * value.den
            /\ report.maintainability_level = "good" <=>
                   value.num > 65 * value.den /\ value.num <= 85 * value.den
            /\ report.maintainability_level = "fair" <=>
                   value.num > 25 * value.den /\ value.num <= 65 * value.den
            /\ report.maintainability_level = "poor" <=>
                   value.num <= 25 * value.den

\* A function of seven statements with three operators: the value 25.02
\* is reported as 25.0, and the level is "fair".
C25_FairAtTwentyFive ==
    /\ Reported("calculate_maintainability_index")
    /\ outcome.value.maintainability_index = PyFloat(250, 1)
    /\ outcome.value.maintainability_level = "fair"

\* The numbers a reported number in tenths may be for the fraction
\* num / den: the nearest ones.
IsRounded(tenths, num, den) ==
    /\ 2 * (tenths * den - 10 * num) <= den
    /\ 2 * (10 * num - tenths * den) <= den

\* The statements of the text that are the header of a function or a
\* class, and those of them whose body, on the lines after the header,
\* starts with a docstring (a text in triple quotes is one statement, over
\* however many lines; empty lines and comments are none).
Headers(statements, keyword) ==
    {i \in 1..Len(statements) : StartsWith(statements[i].text, keyword)}

DocumentedHeaders(statements, keyword) ==
    {i \in Headers(statements, keyword) :
        /\ statements[i].text = keyword \o "f():"
        /\ i < Len(statements)
        /\ \/ StartsWith(statements[i + 1].text, "\"\"\"")
           \/ StartsWith(statements[i + 1].text, "'''")}

OneLineDocstring(stripped) ==
    \E q \in {"\"\"\"", "'''"} :
        /\ Len(stripped) >= 2 * Len(q)
        /\ StartsWith(stripped, q)
        /\ SubSeq(stripped, Len(stripped) - Len(q) + 1, Len(stripped)) = q

\* C27: a pass of the loop of analyze_documentation_quality that finds,
\* outside a docstring, a line that opens and closes a docstring counts
\* the line as one docstring line and leaves the loop outside a docstring.
C27_OneLineDocstringLeavesOutside ==
    [][(/\ invocations # << >>
        /\ invocations' # << >>
        /\ invocations'[1].i = invocations[1].i + 1
        /\ ~invocations[1].in_docstring
        /\ OneLineDocstring(Strip(invocations[1].lines[invocations[1].i])))
       => /\ invocations'[1].docstrings =
                 Append(invocations[1].docstrings, invocations[1].i)
          /\ ~invocations'[1].in_docstring]_vars

\* The loop has passed a function header, a docstring on one line and a
\* return statement: it is inside a docstring and has counted the
\* statement as a docstring line.
C27_StatementCountedAsDocstring ==
    /\ invocations # << >>
    /\ invocations[1].lines = << "def f():", " \"\"\"doc\"\"\"", " return 1" >>
    /\ invocations[1].i = 4
    /\ invocations[1].in_docstring
    /\ invocations[1].docstrings = << 2, 3 >>

\* The runs of a text: a run starts at a line that differs from the line
\* before it and ends before the next line that differs from it.
RunStarts(lines) ==
    {s \in 1..Len(lines) : s = 1 \/ lines[s - 1] # lines[s]}

LinesOfRun(lines, s) ==
    SetMin({e \in s..Len(lines) : e = Len(lines) \/ lines[e + 1] # lines[s]})
        - s + 1

\* What a run adds to consecutive_duplicate_blocks.
RunBlocks(lines, s) ==
    IF Strip(lines[s]) # "" /\ LinesOfRun(lines, s) >= 3
    THEN LinesOfRun(lines, s) - 2
    ELSE 0

RECURSIVE BlocksFrom(_, _)
BlocksFrom(lines, s) ==
    IF s > Len(lines) THEN 0
    ELSE RunBlocks(lines, s) + BlocksFrom(lines, s + LinesOfRun(lines, s))

\* C24: consecutive_duplicate_blocks is the sum, over the runs of equal
\* lines of the text, of the run's length less 2 for a run of 3 or more
\* lines that are not blank, and of 0 for every other run.
C24_BlocksOfRuns ==
    Reported("calculate_code_duplication") =>
        outcome.value.consecutive_duplicate_blocks =
            BlocksFrom(SplitLines(code.v), 1)

\* A run of four lines, a line of blanks and a line that differs: 2 blocks.
C24_RunOfFour ==
    /\ Reported("calculate_code_duplication")
    /\ RunStarts(SplitLines(code.v)) = {1, 5, 6}
    /\ Strip(SplitLines(code.v)[1]) # ""
    /\ outcome.value.consecutive_duplicate_blocks = 2

\* C26, as the docstring of analyze_sql_injection states it: the query
\* with a placeholder whose values are handed over apart from it yields no
\* finding and the risk_level "low".
C26_ParameterizedQueryIsLow ==
    (/\ called = "analyze_sql_injection"
     /\ code = PyStr(ParameterizedQuery)
     /\ ~outcome.raised)
    => /\ outcome.value.vulnerabilities = << >>
       /\ outcome.value.risk_level = "low"

\* C26, what the code returns: the literal and the % of its placeholder
\* match the pattern for a query with % formatting, on line 3, and the
\* risk_level is "medium".
C26_PlaceholderReported ==
    /\ called = "analyze_sql_injection"
    /\ code = PyStr(ParameterizedQuery)
    /\ ~outcome.raised
    /\ outcome.value.vulnerability_count = 1
    /\ outcome.value.vulnerabilities[1].description = "SQL query with % formatting"
    /\ outcome.value.vulnerabilities[1].line = 3
    /\ outcome.value.vulnerabilities[1].code = "\"SELECT * FROM users WHERE id = %"
    /\ outcome.value.risk_level = "medium"

\* The place in a table of the pattern that has the given description.
PatternIndex(table, description) ==
    CHOOSE k \in 1..Len(table) : table[k][2] = description

\* The findings of a report that have the given description.
WithDescription(found, description) ==
    SelectSeq(found, LAMBDA v : v.description = description)

\* C28: in the report of a sub-scanner every finding has the description of
\* a pattern of the scanner's table; a finding of an earlier pattern of the
\* table precedes every finding of a later pattern, whatever their lines;
\* the findings of one pattern follow each other with lines that do not
\* decrease; and each pattern has one finding for each of its matches in
\* the text, so a piece of text that k patterns match has k findings.
C28_PatternFirstThenPosition ==
    SubScannerReported =>
        LET table == PatternsOf[called]
            found == outcome.value.vulnerabilities
        IN  /\ \A i \in 1..Len(found) :
                   \E k \in 1..Len(table) : table[k][2] = found[i].description
            /\ \A i, j \in 1..Len(found) :
                   i < j =>
                       /\ PatternIndex(table, found[i].description)
                              <= PatternIndex(table, found[j].description)
                       /\ found[i].description = found[j].description
                              => found[i].line <= found[j].line
            /\ \A k \in 1..Len(table) :
                   Len(WithDescription(found, table[k][2]))
                       = Len(ReFindIter(ReCompile(table[k][1]), code.v, FlagsIM))

\* C28, a case: a token on line 1, a secret_key on line 2 and a password on
\* line 3; the secrets scanner lists the password first, then line 2 twice
\* (its key is matched by the pattern for an API key and by the pattern for
\* a secret), then the token: the lines are 3, 2, 2, 1.
C28_LinesDescending ==
    /\ SubScannerReported
    /\ called = "analyze_hardcoded_secrets"
    /\ code.v = "token = \"t\"\nsecret_key = \"s\"\npassword = \"p\"\n"
    /\ Len(outcome.value.vulnerabilities) = 4
    /\ [i \in 1..4 |-> outcome.value.vulnerabilities[i].line] = << 3, 2, 2, 1 >>
    /\ [i \in 1..4 |-> outcome.value.vulnerabilities[i].description]
           = << "Hardcoded password", "Hardcoded API key",
                "Hardcoded secret", "Hardcoded token" >>

\* The lengths of the lists of a dictionary of lists, added up.
RECURSIVE LengthsOf(_, _)
LengthsOf(lists, keys) ==
    IF keys = {} THEN 0
    ELSE LET key == CHOOSE k \in keys : TRUE
         IN  Len(lists[key]) + LengthsOf(lists, keys \ {key})

\* The seven values of the summary of a composite report, added up.
SummaryTotal(summary) ==
    summary.sql_injection + summary.command_injection
    + summary.hardcoded_secrets + summary.path_traversal
    + summary.unsafe_deserialization + summary.xss + summary.input_validation

\* C29: in every report of the composite scanner total_vulnerabilities is
\* the length of all_vulnerabilities, the sum of high_severity_count and
\* medium_severity_count, the sum of the seven values of summary and the sum
\* of the lengths of the lists of vulnerability_types; every finding has the
\* severity "high" or "medium" and is in the list of exactly one type.
C29_CountsAgree ==
    CompositeReported =>
        LET r == outcome.value
            all == r.all_vulnerabilities
            lists == r.vulnerability_types
        IN  /\ r.total_vulnerabilities = Len(all)
            /\ r.total_vulnerabilities
                   = r.high_severity_count + r.medium_severity_count
            /\ r.total_vulnerabilities = SummaryTotal(r.summary)
            /\ r.total_vulnerabilities = LengthsOf(lists, DOMAIN lists)
            /\ \A i \in 1..Len(all) :
                   /\ all[i].severity \in {"high", "medium"}
                   /\ Cardinality({type \in DOMAIN lists :
                                      \E j \in 1..Len(lists[type]) :
                                          lists[type][j] = all[i]}) = 1

\* C29, a case: a hardcoded password and two paths with "../"; 3 findings,
\* 1 of high and 2 of medium severity, 1 + 2 in the summary and lists of 1
\* and of 2 findings.
C29_OneHighTwoMedium ==
    /\ CompositeReported
    /\ code.v = Repeated(SecurityLines[3], 1) \o Repeated(SecurityLines[4], 2)
    /\ outcome.value.total_vulnerabilities = 3
    /\ outcome.value.high_severity_count = 1
    /\ outcome.value.medium_severity_count = 2
    /\ outcome.value.summary.hardcoded_secrets = 1
    /\ outcome.value.summary.path_traversal = 2
    /\ DOMAIN outcome.value.vulnerability_types
           = {"Hardcoded Secret", "Path Traversal"}
    /\ Len(outcome.value.vulnerability_types["Hardcoded Secret"]) = 1
    /\ Len(outcome.value.vulnerability_types["Path Traversal"]) = 2

\* The composite scanner has returned a report whose findings, at least
\* one, are all of the path-traversal and of the input-validation scanner.
OnlyPathsAndValidation ==
    /\ CompositeReported
    /\ outcome.value.total_vulnerabilities >= 1
    /\ outcome.value.total_vulnerabilities
           = outcome.value.summary.path_traversal
             + outcome.value.summary.input_validation

\* C30: when the findings of a composite report are all of the
\* path-traversal and of the input-validation scanner they are all of medium
\* severity and overall_risk_level is never "high": it is "low" for 1 to 3
\* findings and "medium" for 4 or more.  For the same text the
\* path-traversal scanner reports "medium" for 1 to 3 findings of its own
\* and "high" from 4, the input-validation scanner "medium" for 1 to 5 and
\* "high" from 6: the composite level does not follow them.
C30_MediumFindingsNeverHigh ==
    OnlyPathsAndValidation =>
        LET r == outcome.value
            level(n, marks) == IF n = 0 THEN "low"
                               ELSE IF n >= marks THEN "high"
                               ELSE "medium"
        IN  /\ \A i \in 1..Len(r.all_vulnerabilities) :
                   r.all_vulnerabilities[i].severity = "medium"
            /\ r.high_severity_count = 0
            /\ r.overall_risk_level # "high"
            /\ r.overall_risk_level = "low" <=> r.total_vulnerabilities <= 3
            /\ r.overall_risk_level = "medium" <=> r.total_vulnerabilities >= 4
            /\ analyze_path_traversal(code).value.risk_level
                   = level(r.summary.path_traversal, 4)
            /\ analyze_input_validation(code).value.risk_level
                   = level(r.summary.input_validation, 6)

\* C30, a case: four paths with "../"; the path-traversal scanner reports
\* "high", the composite scanner "medium".
C30_FourPathsAreMedium ==
    /\ OnlyPathsAndValidation
    /\ code.v = Repeated(SecurityLines[4], 4)
    /\ outcome.value.summary.path_traversal = 4
    /\ outcome.value.overall_risk_level = "medium"
    /\ analyze_path_traversal(code).value.risk_level = "high"

=============================================================================
